---- MODULE Spec2Model ----
(***************************************************************************)
(* A model of @sergiodxa/api-client: the path templater (generatePath),    *)
(* the JSON key-casing codec (serialize / parse) and the request engine    *)
(* (APIClient.request with getURL, getSearchParams, getBody, mergeHeaders  *)
(* and measure).                                                           *)
(*                                                                         *)
(* A JavaScript string is a sequence of one-character strings, so that     *)
(* split, slice, includes and the regular expressions of the source are    *)
(* computed and not assumed.  A JavaScript value is a record tagged with   *)
(* its typeof.                                                             *)
(***************************************************************************)
EXTENDS Integers, Sequences, FiniteSets, TLC

VARIABLES
    gpOriginalPath,  \* generatePath: the argument originalPath
    gpParams,        \* generatePath: the argument params
    gpResult,        \* generatePath: what the call produced (NotCalled before)
    configuration,   \* createAPIClient: the configuration closed over
    call,            \* one execution of APIClient.request
    signalAborted,   \* options.signal.aborted of the AbortSignal given to it
    consoleLog,      \* the lines console.log has printed
    codec,           \* serialize then parse: the input, the text, the output
    parked           \* a second execution of request, suspended at an await

vars == <<gpOriginalPath, gpParams, gpResult, configuration, call,
          signalAborted, consoleLog, codec, parked>>

(***************************************************************************)
(* Bounds of the model.                                                    *)
(***************************************************************************)
MaxSegments == 3   \* segments in a path template given to generatePath alone

(***************************************************************************)
(* JavaScript values.                                                      *)
(***************************************************************************)
Undefined == [t |-> "undefined"]
Null == [t |-> "null"]
Str(s) == [t |-> "string", s |-> s]
Num(n) == [t |-> "number", n |-> n]

\* x == null
IsNullish(v) == v.t \in {"undefined", "null"}

\* !!x for the values a path parameter can take
Truthy(v) ==
    CASE v.t = "string" -> v.s # <<>>
      [] v.t = "number" -> v.n # 0
      [] v.t = "boolean" -> v.b
      [] v.t \in {"null", "undefined"} -> FALSE
      [] OTHER -> TRUE

Digit(d) == <<"0", "1", "2", "3", "4", "5", "6", "7", "8", "9">>[d + 1]

RECURSIVE NumString(_)
\* String(n) for a non-negative integer
NumString(n) ==
    IF n < 10 THEN <<Digit(n)>>
    ELSE NumString(n \div 10) \o <<Digit(n % 10)>>

\* String(x), the conversion Array.prototype.join and template literals apply
String(v) ==
    CASE v.t = "string" -> v.s
      [] v.t = "number" -> NumString(v.n)
      [] v.t = "boolean" ->
            IF v.b THEN <<"t", "r", "u", "e">> ELSE <<"f", "a", "l", "s", "e">>
      [] v.t = "null" -> <<"n", "u", "l", "l">>
      [] OTHER -> <<"u", "n", "d", "e", "f", "i", "n", "e", "d">>

(***************************************************************************)
(* String.prototype operations.                                            *)
(***************************************************************************)
startsWith(s, p) == Len(s) >= Len(p) /\ SubSeq(s, 1, Len(p)) = p
endsWith(s, p) == Len(s) >= Len(p) /\ SubSeq(s, Len(s) - Len(p) + 1, Len(s)) = p
includes(s, p) ==
    \E i \in 1..(Len(s) - Len(p) + 1) : SubSeq(s, i, i + Len(p) - 1) = p
slice1(s) == SubSeq(s, 2, Len(s))

RECURSIVE SplitFrom(_, _, _, _)
\* s.split(c) for a one-character separator c: every c ends a piece
SplitFrom(s, c, i, cur) ==
    IF i > Len(s) THEN <<cur>>
    ELSE IF s[i] = c THEN <<cur>> \o SplitFrom(s, c, i + 1, <<>>)
    ELSE SplitFrom(s, c, i + 1, Append(cur, s[i]))

split(s, c) == SplitFrom(s, c, 1, <<>>)

RECURSIVE SplitRunsFrom(_, _, _, _)
\* s.split(/c+/): every maximal run of c ends a piece
SplitRunsFrom(s, c, i, cur) ==
    IF i > Len(s) THEN <<cur>>
    ELSE IF s[i] = c THEN
        IF i < Len(s) /\ s[i + 1] = c THEN SplitRunsFrom(s, c, i + 1, cur)
        ELSE <<cur>> \o SplitRunsFrom(s, c, i + 1, <<>>)
    ELSE SplitRunsFrom(s, c, i + 1, Append(cur, s[i]))

splitRuns(s, c) == SplitRunsFrom(s, c, 1, <<>>)

RECURSIVE join(_, _)
\* pieces.join(sep) of a sequence of strings
join(pieces, sep) ==
    IF pieces = <<>> THEN <<>>
    ELSE IF Len(pieces) = 1 THEN pieces[1]
    ELSE pieces[1] \o sep \o join(Tail(pieces), sep)

\* \w of the regular expressions, over the characters the model uses
WordChars == {"a", "b", "i", "j", "u", "v", "x", "A", "B", "I", "J", "U",
              "0", "1", "2", "_"}

(***************************************************************************)
(* generatePath (src/generate-path.ts).                                    *)
(***************************************************************************)
NotCalled == [ok |-> FALSE, error |-> "NotCalled"]
Returned(s) == [ok |-> TRUE, value |-> s]
Thrown(kind, detail) == [ok |-> FALSE, error |-> kind, detail |-> detail]

\* invariant(false, `Missing ":${key}" param`)
invariant(key) == Thrown("MissingParam", key)

\* params[key] of an object with the own properties DOMAIN params
Param(params, key) == IF key \in DOMAIN params THEN params[key] ELSE Undefined

\* segment.match(/^:(\w+)(\??)$/): the key and the optional marker, or no match
keyMatch(segment) ==
    LET n == Len(segment)
        optional == n >= 1 /\ segment[n] = "?"
        last == IF optional THEN n - 1 ELSE n
    IN  IF n >= 2 /\ segment[1] = ":" /\ last >= 2
           /\ \A i \in 2..last : segment[i] \in WordChars
        THEN [match |-> TRUE, key |-> SubSeq(segment, 2, last),
              optional |-> optional]
        ELSE [match |-> FALSE, key |-> <<>>, optional |-> FALSE]

\* the trailing bare `*` of a path is treated as `/*`
normalizeStar(path) ==
    IF endsWith(path, <<"*">>) /\ path # <<"*">> /\ ~endsWith(path, <<"/", "*">>)
    THEN SubSeq(path, 1, Len(path) - 1) \o <<"/", "*">>
    ELSE path

\* mapSegment without the invariant: a required parameter that is null or
\* undefined is returned as it is
mapSegment_NoInvariant(segment, isLastSegment, params) ==
    LET m == keyMatch(segment) IN
    IF isLastSegment /\ segment = <<"*">> THEN Returned(Param(params, <<"*">>))
    ELSE IF m.match THEN
        LET param == Param(params, m.key) IN
        IF m.optional THEN Returned(IF IsNullish(param) THEN Str(<<>>) ELSE param)
        ELSE Returned(param)
    ELSE Returned(Str(IF endsWith(segment, <<"?">>)
                      THEN SubSeq(segment, 1, Len(segment) - 1)
                      ELSE segment))

\* the callback of .map: the value one segment becomes, or the error it throws
mapSegment(segment, isLastSegment, params) ==
    LET m == keyMatch(segment) IN
    IF isLastSegment /\ segment = <<"*">> THEN Returned(Param(params, <<"*">>))
    ELSE IF m.match THEN
        LET param == Param(params, m.key) IN
        IF m.optional THEN Returned(IF IsNullish(param) THEN Str(<<>>) ELSE param)
        ELSE IF IsNullish(param) THEN invariant(m.key)
        ELSE Returned(param)
    ELSE Returned(Str(IF endsWith(segment, <<"?">>)
                      THEN SubSeq(segment, 1, Len(segment) - 1)
                      ELSE segment))

\* .filter((segment) => !!segment)
filterTruthy(values) == SelectSeq(values, Truthy)

generatePath(originalPath, params) ==
    LET path == normalizeStar(originalPath)
        prefix == IF startsWith(path, <<"/">>) THEN <<"/">> ELSE <<>>
        trailingSlash == IF endsWith(path, <<"/">>) THEN <<"/">> ELSE <<>>
        array == splitRuns(path, "/")
        mapped == [i \in 1..Len(array) |->
                      mapSegment(array[i], i = Len(array), params)]
        failed == {i \in 1..Len(array) : ~mapped[i].ok}
        first == CHOOSE i \in failed : \A j \in failed : i <= j
        segments == filterTruthy([i \in 1..Len(array) |-> mapped[i].value])
    IN  IF failed # {} THEN mapped[first]
        ELSE Returned(prefix
                      \o join([i \in 1..Len(segments) |-> String(segments[i])],
                              <<"/">>)
                      \o trailingSlash)

(***************************************************************************)
(* JSON values and JSON text.                                              *)
(***************************************************************************)
Bool(b) == [t |-> "boolean", b |-> b]
\* an array, and an object as the sequence of its own entries [k, v] in order
Arr(a) == [t |-> "array", a |-> a]
Obj(e) == [t |-> "object", e |-> e]

LowerCase == <<"a", "b", "d", "e", "i", "j", "n", "t", "u", "v", "x">>
UpperCase == <<"A", "B", "D", "E", "I", "J", "N", "T", "U", "V", "X">>
Digits == {"0", "1", "2", "3", "4", "5", "6", "7", "8", "9"}

IsLower(c) == \E i \in 1..Len(LowerCase) : LowerCase[i] = c
IsUpper(c) == \E i \in 1..Len(UpperCase) : UpperCase[i] = c
toLowerCaseChar(c) ==
    IF IsUpper(c)
    THEN LowerCase[CHOOSE i \in 1..Len(UpperCase) : UpperCase[i] = c] ELSE c
toUpperCaseChar(c) ==
    IF IsLower(c)
    THEN UpperCase[CHOOSE i \in 1..Len(LowerCase) : LowerCase[i] = c] ELSE c
toLowerCase(s) == [i \in 1..Len(s) |-> toLowerCaseChar(s[i])]

\* the character at index i, or "" past the end of the text
At(s, i) == IF i >= 1 /\ i <= Len(s) THEN s[i] ELSE ""

RECURSIVE SetEntry(_, _, _, _)
\* obj[k] = v on the entries of an object: a key keeps its first place
SetEntry(e, k, v, i) ==
    IF i > Len(e) THEN Append(e, [k |-> k, v |-> v])
    ELSE IF e[i].k = k THEN [e EXCEPT ![i] = [k |-> k, v |-> v]]
    ELSE SetEntry(e, k, v, i + 1)

RECURSIVE fromEntriesFrom(_, _, _)
fromEntriesFrom(entries, i, acc) ==
    IF i > Len(entries) THEN acc
    ELSE fromEntriesFrom(entries, i + 1,
                         SetEntry(acc, entries[i].k, entries[i].v, 1))

\* Object.fromEntries(entries)
fromEntries(entries) == Obj(fromEntriesFrom(entries, 1, <<>>))

ParseFail == [ok |-> FALSE]
ParseOk(v, i) == [ok |-> TRUE, v |-> v, i |-> i]
DigitValue(c) == CHOOSE d \in 0..9 : Digit(d) = c
Quote == "\""

RECURSIVE ParseChars(_, _, _)
\* the characters of a string literal up to its closing quote
ParseChars(s, i, acc) ==
    IF i > Len(s) THEN ParseFail
    ELSE IF s[i] = Quote THEN ParseOk(acc, i + 1)
    ELSE ParseChars(s, i + 1, Append(acc, s[i]))

RECURSIVE ParseDigits(_, _, _)
ParseDigits(s, i, n) ==
    IF At(s, i) \in Digits THEN ParseDigits(s, i + 1, 10 * n + DigitValue(s[i]))
    ELSE ParseOk(Num(n), i)

Literal(s, i, word, v) ==
    IF i + Len(word) - 1 <= Len(s) /\ SubSeq(s, i, i + Len(word) - 1) = word
    THEN ParseOk(v, i + Len(word)) ELSE ParseFail

RECURSIVE ParseValue(_, _)
RECURSIVE ParseElements(_, _, _)
RECURSIVE ParseMembers(_, _, _)

\* one JSON value of the text s starting at index i
ParseValue(s, i) ==
    LET c == At(s, i) IN
    CASE c = Quote ->
            LET r == ParseChars(s, i + 1, <<>>)
            IN  IF r.ok THEN ParseOk(Str(r.v), r.i) ELSE ParseFail
      [] c = "0" ->
            IF At(s, i + 1) \in Digits THEN ParseFail ELSE ParseOk(Num(0), i + 1)
      [] c \in Digits \ {"0"} -> ParseDigits(s, i, 0)
      [] c = "n" -> Literal(s, i, <<"n", "u", "l", "l">>, Null)
      [] c = "t" -> Literal(s, i, <<"t", "r", "u", "e">>, Bool(TRUE))
      [] c = "f" -> Literal(s, i, <<"f", "a", "l", "s", "e">>, Bool(FALSE))
      [] c = "[" ->
            IF At(s, i + 1) = "]" THEN ParseOk(Arr(<<>>), i + 2)
            ELSE ParseElements(s, i + 1, <<>>)
      [] c = "{" ->
            IF At(s, i + 1) = "}" THEN ParseOk(Obj(<<>>), i + 2)
            ELSE ParseMembers(s, i + 1, <<>>)
      [] OTHER -> ParseFail

ParseElements(s, i, acc) ==
    LET r == ParseValue(s, i) IN
    IF ~r.ok THEN ParseFail
    ELSE IF At(s, r.i) = "," THEN ParseElements(s, r.i + 1, Append(acc, r.v))
    ELSE IF At(s, r.i) = "]" THEN ParseOk(Arr(Append(acc, r.v)), r.i + 1)
    ELSE ParseFail

ParseMembers(s, i, acc) ==
    LET k == IF At(s, i) = Quote THEN ParseChars(s, i + 1, <<>>) ELSE ParseFail
        r == IF k.ok /\ At(s, k.i) = ":" THEN ParseValue(s, k.i + 1)
             ELSE ParseFail
        e == Append(acc, [k |-> k.v, v |-> r.v])
    IN  IF ~r.ok THEN ParseFail
        ELSE IF At(s, r.i) = "," THEN ParseMembers(s, r.i + 1, e)
        ELSE IF At(s, r.i) = "}" THEN ParseOk(fromEntries(e), r.i + 1)
        ELSE ParseFail

\* JSON.parse(text) without a reviver: the value, or a SyntaxError
JSONparse(text) ==
    LET r == ParseValue(text, 1) IN
    IF r.ok /\ r.i = Len(text) + 1 THEN Returned(r.v)
    ELSE Thrown("SyntaxError", <<>>)

RECURSIVE JSONstringify(_)
RECURSIVE StringifyItems(_, _)
RECURSIVE StringifyEntries(_, _)

\* JSON.stringify(value) without a replacer
JSONstringify(v) ==
    CASE v.t = "string" -> <<Quote>> \o v.s \o <<Quote>>
      [] v.t = "number" -> NumString(v.n)
      [] v.t = "boolean" ->
            IF v.b THEN <<"t", "r", "u", "e">> ELSE <<"f", "a", "l", "s", "e">>
      [] v.t = "array" -> <<"[">> \o StringifyItems(v.a, 1) \o <<"]">>
      [] v.t = "object" -> <<"{">> \o StringifyEntries(v.e, 1) \o <<"}">>
      [] OTHER -> <<"n", "u", "l", "l">>

StringifyItems(a, i) ==
    IF i > Len(a) THEN <<>>
    ELSE (IF i > 1 THEN <<",">> ELSE <<>>) \o JSONstringify(a[i])
            \o StringifyItems(a, i + 1)

StringifyEntries(e, i) ==
    IF i > Len(e) THEN <<>>
    ELSE (IF i > 1 THEN <<",">> ELSE <<>>) \o <<Quote>> \o e[i].k
            \o <<Quote, ":">> \o JSONstringify(e[i].v)
            \o StringifyEntries(e, i + 1)

(***************************************************************************)
(* The key-casing codec (src/json.ts) over inflected's camelize and        *)
(* underscore.                                                             *)
(***************************************************************************)
capitalize(s) ==
    IF s = <<>> THEN s ELSE <<toUpperCaseChar(s[1])>> \o Tail(s)

IsAlnum(c) == IsLower(c) \/ IsUpper(c) \/ c \in Digits

\* camelize(term) with its default second argument: the first letter stays a
\* capital
camelize_UpperFirst(term) ==
    IF term = <<>> THEN term
    ELSE <<toUpperCaseChar(term[1])>>
            \o [i \in 1..(Len(term) - 1) |->
                   IF term[i] = "_" THEN toUpperCaseChar(term[i + 1])
                   ELSE term[i + 1]]

RECURSIVE CamelizeFrom(_, _)
\* result.replace(/(?:_|(\/))([a-z\d]*)/gi, ...): every `_` goes and the run of
\* letters and digits after it is capitalized
CamelizeFrom(s, i) ==
    IF i > Len(s) THEN <<>>
    ELSE IF s[i] = "_" THEN
        LET stop == CHOOSE j \in (i + 1)..(Len(s) + 1) :
                        /\ \A m \in (i + 1)..(j - 1) : IsAlnum(s[m])
                        /\ j = Len(s) + 1 \/ ~IsAlnum(s[j])
        IN  capitalize(SubSeq(s, i + 1, stop - 1)) \o CamelizeFrom(s, stop)
    ELSE <<s[i]>> \o CamelizeFrom(s, i + 1)

\* camelize(term, false): the first character in lower case, then the `_` runs
camelize(term) ==
    IF term = <<>> THEN term
    ELSE CamelizeFrom(
            (IF IsAlnum(term[1]) \/ term[1] = "_"
             THEN <<toLowerCaseChar(term[1])>> ELSE <<term[1]>>) \o Tail(term), 1)

RECURSIVE UnderscoreFrom(_, _)
\* the two replacements of underscore: `_` before the last capital of a run of
\* capitals and digits that a lower-case letter follows, and `_` between a
\* lower-case letter or digit and a capital
UnderscoreFrom(s, i) ==
    IF i > Len(s) THEN <<>>
    ELSE
        LET c == s[i]
            n == At(s, i + 1)
            acronymEnd == /\ IsUpper(c) \/ c \in Digits
                          /\ IsUpper(n)
                          /\ IsLower(At(s, i + 2))
            wordEnd == (IsLower(c) \/ c \in Digits) /\ IsUpper(n)
        IN  <<c>> \o (IF acronymEnd \/ wordEnd THEN <<"_">> ELSE <<>>)
                \o UnderscoreFrom(s, i + 1)

\* underscore(camelCasedWord)
underscore(word) ==
    toLowerCase([i \in 1..Len(UnderscoreFrom(word, 1)) |->
                    IF UnderscoreFrom(word, 1)[i] = "-" THEN "_"
                    ELSE UnderscoreFrom(word, 1)[i]])

RECURSIVE RenameKeys(_, _)
\* the replacer of serialize (snake = TRUE) and the reviver of parse
\* (snake = FALSE), which JSON applies to every object of the value
RenameKeys(v, snake) ==
    CASE v.t = "object" ->
            fromEntries([i \in 1..Len(v.e) |->
                [k |-> IF snake THEN underscore(v.e[i].k) ELSE camelize(v.e[i].k),
                 v |-> RenameKeys(v.e[i].v, snake)]])
      [] v.t = "array" ->
            Arr([i \in 1..Len(v.a) |-> RenameKeys(v.a[i], snake)])
      [] OTHER -> v

\* serialize(input): JSON text with snake_case keys
serialize(input) == JSONstringify(RenameKeys(input, TRUE))

\* parse(input): the value with camelCase keys, or the SyntaxError of JSON.parse
parse(input) ==
    LET r == JSONparse(input) IN
    IF r.ok THEN Returned(RenameKeys(r.value, FALSE)) ELSE r

(***************************************************************************)
(* generatePath applied to bounded arguments.                              *)
(***************************************************************************)
\* the segments templates are made of: a literal, required and optional
\* parameters, the splat, an optional literal and a literal ending in `*`
TemplateSegments ==
    {<<"u">>, <<":", "i">>, <<":", "j">>, <<":", "i", "?">>, <<"*">>,
     <<"u", "?">>, <<"u", "*">>}

SegmentLists == UNION {[1..n -> TemplateSegments] : n \in 0..MaxSegments}

\* a template: segments joined by `/` (or by `//`), with or without a leading
\* and a trailing `/`
Templates ==
    {(IF lead THEN <<"/">> ELSE <<>>) \o join(segs, sep)
        \o (IF trail THEN <<"/">> ELSE <<>>) :
        <<segs, sep, lead, trail>> \in
            SegmentLists \X {<<"/">>, <<"/", "/">>} \X BOOLEAN \X BOOLEAN}

ParamKeys == {<<"i">>, <<"j">>, <<"*">>}

ParamValues(key) ==
    IF key = <<"i">>
    THEN {Null, Undefined, Str(<<"a">>), Str(<<>>), Num(0), Num(12)}
    ELSE IF key = <<"j">> THEN {Str(<<"b">>), Num(0)}
    ELSE {Str(<<"x">>)}

\* the params objects: any subset of the keys present, each with one value
ParamObjects ==
    UNION {{p \in [K -> UNION {ParamValues(k) : k \in K}] :
               \A k \in K : p[k] \in ParamValues(k)} : K \in SUBSET ParamKeys}

(***************************************************************************)
(* The client configuration (createAPIClient) and what a request is given. *)
(***************************************************************************)
GET == <<"G", "E", "T">>
POST == <<"P", "O", "S", "T">>
PUT == <<"P", "U", "T">>
PATCH == <<"P", "A", "T", "C", "H">>
DELETE == <<"D", "E", "L", "E", "T", "E">>
FETCH == <<"F", "E", "T", "C", "H">>

\* z.enum(["GET", "POST", "PUT", "PATCH", "DELETE"])
RequestMethodSchema == {GET, POST, PUT, PATCH, DELETE}

\* the keys of configuration.endpoints and the schemas each declares beside
\* expects.success; expects.failure is declared by all of them or by none
EndpointUsers == GET \o <<" ", "/", "u">>
EndpointUser == GET \o <<" ", "/", "u", "/", ":", "i">>
EndpointCreate == POST \o <<" ", "/", "u">>
EndpointUpdate == PUT \o <<" ", "/", "u", "/", ":", "i", "/", ":", "j">>
EndpointBadMethod == FETCH \o <<" ", "/", "u">>

EndpointKeys ==
    {EndpointUsers, EndpointUser, EndpointCreate, EndpointUpdate,
     EndpointBadMethod}

EndpointOptions(key, failure) ==
    [search |-> key = EndpointUser,
     body |-> key \in {EndpointCreate, EndpointUsers}, failure |-> failure]

\* the property names every object inherits from Object.prototype
ObjectPrototypeKeys ==
    {<<"t", "o", "S", "t", "r", "i", "n", "g">>,
     <<"c", "o", "n", "s", "t", "r", "u", "c", "t", "o", "r">>}

StringUndefined == <<"u", "n", "d", "e", "f", "i", "n", "e", "d">>
Authorization ==
    <<"A", "u", "t", "h", "o", "r", "i", "z", "a", "t", "i", "o", "n">>

\* an object of HeadersInit: its entries [k, v] in order
NoHeadersInit == <<>>
FetchHeaders ==
    {NoHeadersInit, <<[k |-> <<"A">>, v |-> Str(<<"1">>)]>>}
CallHeaders ==
    {NoHeadersInit,
     <<[k |-> <<"a">>, v |-> Str(<<"2">>)]>>,
     <<[k |-> <<"a">>, v |-> Str(StringUndefined)]>>,
     <<[k |-> Authorization, v |-> Str(<<"2">>)]>>,
     <<[k |-> <<"a">>, v |-> Undefined], [k |-> <<"X">>, v |-> Str(<<"t">>)]>>}

\* the configurations: every hook and header of the tests with the measure
\* hook `(_, fn) => fn()`, and the default measure and a measure hook that
\* throws with no credentials hook and no client-level headers
Configurations ==
    {[endpoints |-> [k \in EndpointKeys |-> EndpointOptions(k, failure)],
      credentials |-> credentials, measure |-> m, fetchHeaders |-> h] :
        <<failure, credentials, m, h>> \in
            (BOOLEAN \X {"none", "url", "headers"} \X {"custom"}
                \X FetchHeaders)
            \cup (BOOLEAN \X {"none"} \X {"default", "throws"}
                     \X {NoHeadersInit})}

\* the token given to the constructor of the client
Tokens == {Undefined, Str(<<"k">>)}

\* what request can be given as its endpoint: the keys, a string that is no
\* key, the name of an inherited property, and a value that is no string
EndpointArguments ==
    {Str(k) : k \in EndpointKeys}
        \cup {Str(GET \o <<" ", "/", "p">>),
              Str(<<"t", "o", "S", "t", "r", "i", "n", "g">>), Obj(<<>>)}

\* a property of options that may be there or not
NotSupplied == [supplied |-> FALSE]
Supplied(v) == [supplied |-> TRUE, value |-> v]

\* options.variables.params
ParamsArguments ==
    {NotSupplied} \cup
    {Supplied(p) : p \in
        {q \in ParamObjects :
            /\ <<"*">> \notin DOMAIN q
            /\ \A k \in DOMAIN q :
                  q[k] \in {Null, Str(<<"a">>), Num(12), Str(<<"b">>)}}}

\* what a schema can answer for a value: the value as it is, the empty object
\* (a schema that strips every key), or a ZodError
SchemaOutputs(value) == {value, Obj(<<>>)}
parseAsync(value) ==
    {Thrown("ZodError", <<>>)} \cup {Returned(o) : o \in SchemaOutputs(value)}

\* options.variables.search, as the search schema returns it
SearchValues ==
    {Obj(<<[k |-> <<"a">>, v |-> Str(<<"x">>)]>>),
     Obj(<<[k |-> <<"i">>, v |-> Arr(<<Num(1), Num(2), Num(1)>>)],
           [k |-> <<"b">>, v |-> Bool(TRUE)]>>),
     Obj(<<[k |-> <<"u">>, v |-> Obj(<<[k |-> <<"a">>, v |-> Str(<<"x">>)],
                                       [k |-> <<"b">>, v |-> Num(1)]>>)],
           [k |-> <<"n">>, v |-> Null],
           [k |-> <<"e">>, v |-> Arr(<<>>)],
           [k |-> <<"x">>, v |-> [t |-> "symbol"]]>>)}

\* options.variables.body
BodyValues ==
    {Obj(<<[k |-> <<"a", "B">>, v |-> Num(1)]>>),
     Obj(<<[k |-> <<"u", "I">>,
            v |-> Arr(<<Obj(<<[k |-> <<"a", "B">>, v |-> Str(<<"x">>)]>>)>>)]>>)}

\* the responses of the transport
Statuses == {199, 200, 299, 300, 399, 400, 499, 500}

ContentTypeJson ==
    <<"a", "p", "p", "l", "i", "c", "a", "t", "i", "o", "n", "/", "j", "s",
      "o", "n">>
ContentTypes ==
    {Null,
     Str(<<"t", "e", "x", "t", "/", "p", "l", "a", "i", "n">>),
     Str(ContentTypeJson),
     Str(ContentTypeJson \o <<";", " ", "c", "h", "a", "r", "s", "e", "t", "=",
                              "u", "t", "f", "-", "8">>)}

BodyTexts ==
    {<<>>,
     <<"N", "o", "t">>,
     <<Quote, Quote>>,
     <<"{", Quote, "a", "_", "b", Quote, ":", "1", "}">>,
     <<"{", Quote, "e", "_", "i", Quote, ":", "[", "{", Quote, "u", "_", "i",
       Quote, ":", Quote, "x", Quote, "}", "]", "}">>}

Pending == [ok |-> FALSE, error |-> "Pending"]

\* a request before it is called: the locals of APIClient.request, and as
\* history what it was given (params, search, options), what the credentials
\* hook was called with (hook) and how the thunk of the measurer settled (thunk)
IdleCall ==
    [pc |-> "idle", endpoint |-> Undefined, signal |-> FALSE,
     method |-> <<>>, path |-> <<>>, url |-> Undefined, headers |-> Undefined,
     init |-> Undefined, awaited |-> Undefined, request |-> Undefined,
     response |-> Undefined, text |-> Undefined, answer |-> Undefined,
     body |-> Undefined, schema |-> "none", log |-> <<>>, outcome |-> Pending,
     abortedAtCall |-> FALSE, missing |-> Undefined, params |-> Undefined,
     search |-> Undefined, options |-> Undefined, hook |-> Undefined,
     thunk |-> Pending]

\* no second request: the client serves one request at a time
NoCall == [pc |-> "none"]

NoConfiguration ==
    [endpoints |-> <<>>, credentials |-> "none", measure |-> "custom",
     fetchHeaders |-> NoHeadersInit]

\* serialize and parse before they are called
NoCodec == [input |-> Undefined, text |-> NotCalled, output |-> NotCalled]

InitPath ==
    /\ gpOriginalPath \in Templates
    /\ gpParams \in ParamObjects
    /\ gpResult = NotCalled
    /\ codec = NoCodec
    /\ parked = NoCall
    /\ configuration = NoConfiguration
    /\ call = IdleCall
    /\ signalAborted = FALSE
    /\ consoleLog = <<>>

\* generatePath(originalPath, params)
GeneratePath ==
    /\ gpResult = NotCalled
    /\ gpResult' = generatePath(gpOriginalPath, gpParams)
    /\ UNCHANGED <<gpOriginalPath, gpParams, configuration, call,
                   signalAborted, consoleLog, codec, parked>>

NextPath == GeneratePath

SpecPath == InitPath /\ [][NextPath]_vars

(***************************************************************************)
(* serialize and parse applied to bounded values.                          *)
(***************************************************************************)
\* keys: one word, two words, a word of one letter, digits, and a run of
\* capitals
CodecKeys ==
    {<<"a">>, <<"a", "B">>, <<"a", "B", "e">>, <<"a", "B", "1">>,
     <<"a", "1", "B">>, <<"u", "I", "d">>, <<"u", "I", "D">>}

CodecLeaves == {Num(1), Str(<<"a", "B">>), Null, Bool(TRUE)}

Entry(k, v) == [k |-> k, v |-> v]

\* the values: primitives, objects of one and two entries, objects in objects,
\* objects in arrays, arrays of objects in objects
CodecValues ==
    CodecLeaves
    \cup {Obj(<<Entry(k, v)>>) : k \in CodecKeys, v \in CodecLeaves}
    \cup {Obj(<<Entry(k, Num(1)), Entry(l, Str(<<"a", "B">>))>>) :
             <<k, l>> \in {x \in CodecKeys \X CodecKeys : x[1] # x[2]}}
    \cup {Obj(<<Entry(k, Obj(<<Entry(l, Num(1))>>))>>) :
             k \in CodecKeys, l \in CodecKeys}
    \cup {Arr(<<Obj(<<Entry(k, Num(1))>>), v>>) :
             k \in CodecKeys, v \in CodecLeaves}
    \cup {Obj(<<Entry(k, Arr(<<Obj(<<Entry(l, Num(1))>>),
                               Obj(<<Entry(l, Str(<<"a", "B">>))>>)>>))>>) :
             k \in CodecKeys, l \in CodecKeys}

InitCodec ==
    /\ codec \in {[NoCodec EXCEPT !.input = x] : x \in CodecValues}
    /\ gpOriginalPath = <<>>
    /\ gpParams = <<>>
    /\ gpResult = NotCalled
    /\ configuration = NoConfiguration
    /\ call = IdleCall
    /\ signalAborted = FALSE
    /\ consoleLog = <<>>
    /\ parked = NoCall

\* serialize(input)
Serialize ==
    /\ codec.text = NotCalled
    /\ codec' = [codec EXCEPT !.text = Returned(serialize(codec.input))]
    /\ UNCHANGED <<gpOriginalPath, gpParams, gpResult, configuration, call,
                   signalAborted, consoleLog, parked>>

\* parse(text) of the text serialize returned
Parse ==
    /\ codec.text # NotCalled
    /\ codec.output = NotCalled
    /\ codec' = [codec EXCEPT !.output = parse(codec.text.value)]
    /\ UNCHANGED <<gpOriginalPath, gpParams, gpResult, configuration, call,
                   signalAborted, consoleLog, parked>>

NextCodec == Serialize \/ Parse

SpecCodec == InitCodec /\ [][NextCodec]_vars

(***************************************************************************)
(* URL, URLSearchParams and Headers.                                       *)
(***************************************************************************)
\* new URL(relative, configuration.baseURL) for the base https://example.com
URL(relative) == [pathname |-> <<"/">> \o relative, searchParams |-> <<>>]

\* searchParams.append(name, value)
append(searchParams, name, value) ==
    Append(searchParams, [k |-> name, v |-> value])

\* searchParams.set(name, value): the first pair of that name takes the value,
\* the others of that name go; no pair of that name: append
set(searchParams, name, value) ==
    LET where == {i \in 1..Len(searchParams) : searchParams[i].k = name}
        first == CHOOSE i \in where : \A j \in where : i <= j
        keep(i) == searchParams[i].k # name \/ i = first
        kept == SelectSeq([i \in 1..Len(searchParams) |->
                              [i |-> i, p |-> searchParams[i]]],
                          LAMBDA x : keep(x.i))
    IN  IF where = {} THEN append(searchParams, name, value)
        ELSE [i \in 1..Len(kept) |->
                 IF kept[i].i = first THEN [k |-> name, v |-> value]
                 ELSE kept[i].p]

RECURSIVE HeadersFrom(_, _, _)
HeadersFrom(init, i, acc) ==
    IF i > Len(init) THEN acc
    ELSE
        LET name == toLowerCase(init[i].k)
            value == String(init[i].v)
        IN  HeadersFrom(init, i + 1,
                IF name \in DOMAIN acc
                THEN [acc EXCEPT ![name] = @ \o <<",", " ">> \o value]
                ELSE [n \in DOMAIN acc \cup {name} |->
                         IF n = name THEN value ELSE acc[n]])

\* new Headers(init): names in lower case, values as strings, the values of a
\* repeated name joined with ", "
Headers(init) == HeadersFrom(init, 1, <<>>)

\* headers.set(name, value)
headersSet(headers, name, value) ==
    [n \in DOMAIN headers \cup {toLowerCase(name)} |->
        IF n = toLowerCase(name) THEN value ELSE headers[n]]

\* mergeSource without the delete: "undefined" is assigned like any value
mergeSource_NoDelete(result, headers) ==
    [n \in DOMAIN result \cup DOMAIN headers |->
        IF n \in DOMAIN headers THEN headers[n] ELSE result[n]]

\* the loop body of mergeHeaders for one source: every header of the source is
\* assigned to result, or deleted from it when its value is "undefined"
mergeSource(result, headers) ==
    [n \in {m \in DOMAIN result \cup DOMAIN headers :
               m \in DOMAIN headers => headers[m] # StringUndefined} |->
        IF n \in DOMAIN headers THEN headers[n] ELSE result[n]]

RECURSIVE mergeHeadersFrom(_, _, _)
mergeHeadersFrom(sources, i, result) ==
    IF i > Len(sources) THEN result
    ELSE mergeHeadersFrom(sources, i + 1, mergeSource(result, sources[i]))

\* mergeHeaders(...sources)
mergeHeaders(sources) == mergeHeadersFrom(sources, 1, <<>>)

(***************************************************************************)
(* The stages of APIClient.request.                                        *)
(***************************************************************************)
Log(c, event) == [c EXCEPT !.log = Append(@, event)]

\* request ends: it returns or throws, and its locals are gone
Finish(c, outcome) ==
    [c EXCEPT !.pc = "done", !.outcome = outcome, !.url = Undefined,
              !.headers = Undefined, !.init = Undefined, !.awaited = Undefined,
              !.request = Undefined, !.params = Undefined,
              !.search = Undefined, !.options = Undefined, !.hook = Undefined]

\* endpoint in configuration.endpoints: own and inherited properties
EndpointIn(endpoint) ==
    endpoint \in DOMAIN configuration.endpoints \cup ObjectPrototypeKeys

\* z.tuple([RequestMethodSchema, z.string()]).parse(endpoint.split(" "))
parseMethodAndPath(endpoint) ==
    LET parts == split(endpoint, " ") IN
    IF Len(parts) = 2 /\ parts[1] \in RequestMethodSchema
    THEN Returned(parts) ELSE Thrown("ZodError", <<>>)

\* getURL(path, params): the promise it returns
getURL(path, params) ==
    LET generated ==
            generatePath(path, IF params.supplied THEN params.value ELSE <<>>)
    IN  IF generated.ok THEN Returned(URL(slice1(generated.value)))
        ELSE generated

\* encodeEntry with the elements of an array set like a single value
encodeEntry_ArraySet(searchParams, key, value) ==
    CASE value.t = "string" -> set(searchParams, key, value.s)
      [] value.t \in {"boolean", "number"} -> set(searchParams, key, String(value))
      [] value.t = "array" ->
            IF value.a = <<>> THEN searchParams
            ELSE set(searchParams, key, String(value.a[Len(value.a)]))
      [] value.t = "object" ->
            searchParams \o [i \in 1..Len(value.e) |->
                                [k |-> key \o <<"[">> \o value.e[i].k \o <<"]">>,
                                 v |-> String(value.e[i].v)]]
      [] OTHER -> searchParams

\* the switch of getSearchParams for one entry of the validated search value
encodeEntry(searchParams, key, value) ==
    CASE value.t = "string" -> set(searchParams, key, value.s)
      [] value.t \in {"boolean", "number"} -> set(searchParams, key, String(value))
      [] value.t = "array" ->
            searchParams \o [i \in 1..Len(value.a) |->
                                [k |-> key, v |-> String(value.a[i])]]
      [] value.t = "object" ->
            searchParams \o [i \in 1..Len(value.e) |->
                                [k |-> key \o <<"[">> \o value.e[i].k \o <<"]">>,
                                 v |-> String(value.e[i].v)]]
      [] OTHER -> searchParams

RECURSIVE encodeEntries(_, _, _)
encodeEntries(searchParams, entries, i) ==
    IF i > Len(entries) THEN searchParams
    ELSE encodeEntries(encodeEntry(searchParams, entries[i].k, entries[i].v),
                       entries, i + 1)

\* the loop of getSearchParams over Object.entries of the validated value
encodeSearch(url, value) ==
    [url EXCEPT !.searchParams = encodeEntries(@, value.e, 1)]

\* configuration.credentials({url, headers, token}), as the hooks of the tests
\* do it: a token that is given goes in the query, or in the Authorization
\* header
credentials(c, token) ==
    LET called == [Log(c, "credentials") EXCEPT
                      !.hook = [url |-> c.url, headers |-> c.headers,
                                token |-> token]]
    IN  CASE configuration.credentials = "url" ->
                [called EXCEPT
                    !.url.searchParams =
                        IF Truthy(token)
                        THEN set(@, <<"t", "o", "k", "e", "n">>, token.s) ELSE @]
          [] configuration.credentials = "headers" ->
                [called EXCEPT
                    !.headers =
                        IF Truthy(token)
                        THEN headersSet(@, Authorization, token.s) ELSE @]
          [] OTHER -> c

\* dispatch that looks at the signal once more and throws if it is aborted
dispatch_ChecksSignalAgain(c) ==
    IF c.init.signal /\ signalAborted
    THEN Finish(Log(c, "signal.aborted"), Thrown("AbortError", <<>>))
    ELSE IF configuration.measure = "throws"
    THEN Finish(Log(c, "measure"), Thrown("MeasureError", <<>>))
    ELSE [Log(Log(c, "measure"), "fetch") EXCEPT
            !.pc = "awaitFetch",
            !.request = [method |-> c.method, url |-> c.url,
                         headers |-> c.headers, body |-> c.init.body,
                         signal |-> c.init.signal],
            !.url = Undefined, !.headers = Undefined, !.init = Undefined,
            !.awaited = Undefined]

\* dispatch with the error of the hook caught and the thunk run all the same
dispatch_SwallowsHookError(c) ==
    [Log(Log(c, "measure"), "fetch") EXCEPT
        !.pc = "awaitFetch",
        !.request = [method |-> c.method, url |-> c.url,
                     headers |-> c.headers, body |-> c.init.body,
                     signal |-> c.init.signal],
        !.url = Undefined, !.headers = Undefined, !.init = Undefined,
        !.awaited = Undefined]

\* measurer(endpoint, thunk) up to the first await of the thunk: the Request
\* is built and handed to fetch; a hook that throws before it runs the thunk
\* ends request with its error
dispatch(c) ==
    IF configuration.measure = "throws"
    THEN Finish(Log(c, "measure"), Thrown("MeasureError", <<>>))
    ELSE [Log(Log(c, "measure"), "fetch") EXCEPT
            !.pc = "awaitFetch",
            !.request = [method |-> c.method, url |-> c.url,
                         headers |-> c.headers, body |-> c.init.body,
                         signal |-> c.init.signal],
            !.url = Undefined, !.headers = Undefined, !.init = Undefined,
            !.awaited = Undefined]

\* init made by assigning into configuration.fetch: the headers of the call,
\* as the credentials hook left them, become the client-level headers
spreadFetch_Assign(conf, c) ==
    LET headers == IF c.pc = "awaitFetch" THEN c.request.headers ELSE c.headers
        names == CHOOSE n \in [1..Cardinality(DOMAIN headers) -> DOMAIN headers] :
                    {n[i] : i \in DOMAIN n} = DOMAIN headers
    IN  IF c.pc \in {"awaitBody", "awaitFetch"}
        THEN [conf EXCEPT !.fetchHeaders =
                 [i \in DOMAIN names |->
                     [k |-> names[i], v |-> Str(headers[names[i]])]]]
        ELSE conf

\* configuration after `init = {...configuration.fetch, method, headers}` of
\* the request that has moved to c: the spread copies the properties of
\* configuration.fetch into a new object and assigns nothing to it
spreadFetch(conf, c) == conf

\* getBody that sends no body when the schema rejects it
getBody_DefaultsOnError(c, answer) ==
    LET c1 == Log(c, "getBody") IN
    IF configuration.endpoints[c.endpoint.s].body
    THEN [Log(c1, "body.parseAsync") EXCEPT
             !.pc = "awaitBody",
             !.awaited = IF answer.ok THEN answer
                         ELSE Returned(Obj(<<>>))]
    ELSE [c1 EXCEPT !.pc = "awaitBody", !.awaited = Returned(Undefined)]

\* getBody(endpoint, options.variables.body) up to its await; answer is what
\* the body schema will answer
getBody(c, answer) ==
    LET c1 == Log(c, "getBody") IN
    IF configuration.endpoints[c.endpoint.s].body
    THEN [Log(c1, "body.parseAsync") EXCEPT !.pc = "awaitBody",
                                            !.awaited = answer]
    ELSE [c1 EXCEPT !.pc = "awaitBody", !.awaited = Returned(Undefined)]

\* prepare without the test of the method: a GET request gets a body too
prepare_BodyForGet(c, callHeaders, token, body, answer) ==
    LET c1 == [Log(c, "mergeHeaders") EXCEPT
                  !.options = [headers |-> callHeaders, token |-> token,
                               body |-> body, answer |-> answer],
                  !.headers = mergeHeaders(<<Headers(configuration.fetchHeaders),
                                             Headers(callHeaders)>>)]
        c2 == credentials(c1, token)
        c3 == [c2 EXCEPT !.init = [body |-> Undefined, signal |-> FALSE]]
        c4 == IF c.signal
              THEN [Log(c3, "signal.aborted") EXCEPT !.init.signal = TRUE]
              ELSE c3
    IN  IF c.signal /\ signalAborted THEN Finish(c4, Thrown("AbortError", <<>>))
        ELSE IF body.supplied THEN getBody(c4, answer)
        ELSE dispatch(c4)

\* prepare with the signal looked at before the credentials hook is called
prepare_AbortedCheckFirst(c, callHeaders, token, body, answer) ==
    LET c1 == [Log(c, "mergeHeaders") EXCEPT
                  !.options = [headers |-> callHeaders, token |-> token,
                               body |-> body, answer |-> answer],
                  !.headers = mergeHeaders(<<Headers(configuration.fetchHeaders),
                                             Headers(callHeaders)>>)]
        c2 == IF c.signal THEN Log(c1, "signal.aborted") ELSE c1
        c3 == credentials(c2, token)
        c4 == [c3 EXCEPT !.init = [body |-> Undefined, signal |-> c.signal]]
    IN  IF c.signal /\ signalAborted THEN Finish(c2, Thrown("AbortError", <<>>))
        ELSE IF c.method # GET /\ body.supplied THEN getBody(c4, answer)
        ELSE dispatch(c4)

\* prepare with the credentials hook called before the headers are merged:
\* the hook gets empty headers and the merged ones replace them
prepare_HookBeforeMerge(c, callHeaders, token, body, answer) ==
    LET c1 == [c EXCEPT
                  !.options = [headers |-> callHeaders, token |-> token,
                               body |-> body, answer |-> answer],
                  !.headers = Headers(NoHeadersInit)]
        c2 == [Log(credentials(c1, token), "mergeHeaders") EXCEPT
                  !.headers = mergeHeaders(<<Headers(configuration.fetchHeaders),
                                             Headers(callHeaders)>>)]
        c3 == [c2 EXCEPT !.init = [body |-> Undefined, signal |-> FALSE]]
        c4 == IF c.signal
              THEN [Log(c3, "signal.aborted") EXCEPT !.init.signal = TRUE]
              ELSE c3
    IN  IF c.signal /\ signalAborted THEN Finish(c4, Thrown("AbortError", <<>>))
        ELSE IF c.method # GET /\ body.supplied THEN getBody(c4, answer)
        ELSE dispatch(c4)

\* prepare without the check of signal.aborted: the signal only goes to init
prepare_NoAbortedCheck(c, callHeaders, token, body, answer) ==
    LET c1 == [Log(c, "mergeHeaders") EXCEPT
                  !.options = [headers |-> callHeaders, token |-> token,
                               body |-> body, answer |-> answer],
                  !.headers = mergeHeaders(<<Headers(configuration.fetchHeaders),
                                             Headers(callHeaders)>>)]
        c2 == credentials(c1, token)
        c3 == [c2 EXCEPT !.init = [body |-> Undefined, signal |-> FALSE]]
        c4 == IF c.signal THEN [c3 EXCEPT !.init.signal = TRUE] ELSE c3
    IN  IF c.method # GET /\ body.supplied THEN getBody(c4, answer)
        ELSE dispatch(c4)

\* request from mergeHeaders to its next await
prepare(c, callHeaders, token, body, answer) ==
    LET c1 == [Log(c, "mergeHeaders") EXCEPT
                  !.options = [headers |-> callHeaders, token |-> token,
                               body |-> body, answer |-> answer],
                  !.headers = mergeHeaders(<<Headers(configuration.fetchHeaders),
                                             Headers(callHeaders)>>)]
        c2 == credentials(c1, token)
        c3 == [c2 EXCEPT !.init = [body |-> Undefined, signal |-> FALSE]]
        c4 == IF c.signal
              THEN [Log(c3, "signal.aborted") EXCEPT !.init.signal = TRUE]
              ELSE c3
    IN  IF c.signal /\ signalAborted THEN Finish(c4, Thrown("AbortError", <<>>))
        ELSE IF c.method # GET /\ body.supplied THEN getBody(c4, answer)
        ELSE dispatch(c4)

\* the names of the `:name` pieces of a path, in order: the pieces between
\* `/` that are a colon and a name, with no `?` after it
RequiredNames(path) ==
    LET pieces == split(path, "/")
        required == SelectSeq(pieces,
                       LAMBDA p : Len(p) >= 2 /\ p[1] = ":"
                                  /\ \A i \in 2..Len(p) : p[i] \in WordChars)
    IN  [i \in 1..Len(required) |-> Tail(required[i])]

\* history: the first required name of the path that the params given to
\* request leave absent, null or undefined (Undefined: there is none)
FirstMissing(path, params) ==
    LET names == RequiredNames(path)
        given == IF params.supplied THEN params.value ELSE <<>>
        absent == {i \in 1..Len(names) :
                      names[i] \notin DOMAIN given
                      \/ given[names[i]] \in {Null, Undefined}}
    IN  IF absent = {} THEN Undefined
        ELSE Str(names[CHOOSE i \in absent : \A j \in absent : i <= j])

\* request from its call to `await getURL(...)`
request(c, endpoint, signal, params) ==
    LET c1 == [Log(c, "typeof") EXCEPT !.endpoint = endpoint, !.signal = signal,
                                       !.abortedAtCall = signalAborted]
        c2 == Log(c1, "in")
        c3 == Log(c2, "method")
        parsed == parseMethodAndPath(endpoint.s)
    IN  IF endpoint.t # "string"
        THEN Finish(c1, Thrown("InvalidEndpoint", <<>>))
        ELSE IF ~EndpointIn(endpoint.s)
        THEN Finish(c2, Thrown("MissingEndpoint", endpoint.s))
        ELSE IF ~parsed.ok THEN Finish(c3, parsed)
        ELSE [Log(c3, "generatePath") EXCEPT
                 !.pc = "awaitURL",
                 !.method = parsed.value[1], !.path = parsed.value[2],
                 !.awaited = getURL(parsed.value[2], params),
                 !.params = params,
                 !.missing = FirstMissing(parsed.value[2], params)]

\* getSearchParams that encodes the search variables as they were given
getSearchParams_Unvalidated(c, answer) ==
    LET c1 == Log(c, "getSearchParams") IN
    IF configuration.endpoints[c.endpoint.s].search
    THEN [c1 EXCEPT !.pc = "awaitSearch",
                    !.awaited = Returned(c.search.search.value)]
    ELSE [c1 EXCEPT !.pc = "awaitSearch", !.awaited = Returned(Undefined)]

\* getSearchParams(endpoint, url, options.variables.search) up to its await
getSearchParams(c, answer) ==
    LET c1 == Log(c, "getSearchParams") IN
    IF configuration.endpoints[c.endpoint.s].search
    THEN [Log(c1, "search.parseAsync") EXCEPT !.pc = "awaitSearch",
                                             !.awaited = answer]
    ELSE [c1 EXCEPT !.pc = "awaitSearch", !.awaited = Returned(Undefined)]

\* classify with one more try when the server fails
classify_RetriesServerError(c, answer) ==
    LET status == c.response.status
        FailureSchema == configuration.endpoints[c.endpoint.s].failure
    IN  IF status >= 200 /\ status < 300
        THEN [Log(c, "success.parseAsync") EXCEPT
                 !.pc = "awaitValidate", !.schema = "success",
                 !.awaited = answer]
        ELSE IF status >= 400 /\ status < 500
        THEN IF ~FailureSchema
             THEN Finish(c, Thrown("MissingFailureSchema", c.endpoint.s))
             ELSE [Log(c, "failure.parseAsync") EXCEPT
                      !.pc = "awaitValidate", !.schema = "failure",
                      !.awaited = answer]
        ELSE IF Len(SelectSeq(c.log, LAMBDA e : e = "fetch")) < 2
        THEN [Log(c, "fetch") EXCEPT
                 !.pc = "awaitFetch",
                 !.request = [method |-> c.method, url |-> Undefined,
                              headers |-> Undefined, body |-> Undefined,
                              signal |-> c.signal],
                 !.response = Undefined, !.text = Undefined]
        ELSE Finish(c, Thrown("ServerError",
                              [endpoint |-> c.endpoint.s, code |-> status]))

\* classify with a 2xx body the success schema rejects handed to the failure
\* schema
classify_SuccessThenFailure(c, answer) ==
    LET status == c.response.status
        FailureSchema == configuration.endpoints[c.endpoint.s].failure
    IN  IF status >= 200 /\ status < 300
        THEN IF ~answer.ok /\ FailureSchema
             THEN [Log(Log(c, "success.parseAsync"), "failure.parseAsync")
                      EXCEPT !.pc = "awaitValidate", !.schema = "failure",
                             !.awaited = Returned(c.body)]
             ELSE [Log(c, "success.parseAsync") EXCEPT
                      !.pc = "awaitValidate", !.schema = "success",
                      !.awaited = answer]
        ELSE IF status >= 400 /\ status < 500
        THEN IF ~FailureSchema
             THEN Finish(c, Thrown("MissingFailureSchema", c.endpoint.s))
             ELSE [Log(c, "failure.parseAsync") EXCEPT
                      !.pc = "awaitValidate", !.schema = "failure",
                      !.awaited = answer]
        ELSE Finish(c, Thrown("ServerError",
                              [endpoint |-> c.endpoint.s, code |-> status]))

\* classify with the redirects counted as successes
classify_RedirectsSucceed(c, answer) ==
    LET status == c.response.status
        FailureSchema == configuration.endpoints[c.endpoint.s].failure
    IN  IF status >= 200 /\ status < 400
        THEN [Log(c, "success.parseAsync") EXCEPT
                 !.pc = "awaitValidate", !.schema = "success",
                 !.awaited = answer]
        ELSE IF status >= 400 /\ status < 500
        THEN IF ~FailureSchema
             THEN Finish(c, Thrown("MissingFailureSchema", c.endpoint.s))
             ELSE [Log(c, "failure.parseAsync") EXCEPT
                      !.pc = "awaitValidate", !.schema = "failure",
                      !.awaited = answer]
        ELSE Finish(c, Thrown("ServerError",
                              [endpoint |-> c.endpoint.s, code |-> status]))

\* classify that sends again, as often as the server fails
classify_PollsServerError(c, answer) ==
    LET status == c.response.status
        FailureSchema == configuration.endpoints[c.endpoint.s].failure
    IN  IF status >= 200 /\ status < 300
        THEN [Log(c, "success.parseAsync") EXCEPT
                 !.pc = "awaitValidate", !.schema = "success",
                 !.awaited = answer]
        ELSE IF status >= 400 /\ status < 500
        THEN IF ~FailureSchema
             THEN Finish(c, Thrown("MissingFailureSchema", c.endpoint.s))
             ELSE [Log(c, "failure.parseAsync") EXCEPT
                      !.pc = "awaitValidate", !.schema = "failure",
                      !.awaited = answer]
        ELSE [c EXCEPT
                 !.pc = "awaitFetch",
                 !.request = [method |-> c.method, url |-> Undefined,
                              headers |-> Undefined, body |-> Undefined,
                              signal |-> c.signal],
                 !.log = SubSeq(c.log, 1, Len(c.log) - 3),
                 !.response = Undefined, !.text = Undefined,
                 !.answer = Undefined, !.body = Undefined]

\* classify with the client errors starting above 400
classify_Above400(c, answer) ==
    LET status == c.response.status
        FailureSchema == configuration.endpoints[c.endpoint.s].failure
    IN  IF status >= 200 /\ status < 300
        THEN [Log(c, "success.parseAsync") EXCEPT
                 !.pc = "awaitValidate", !.schema = "success",
                 !.awaited = answer]
        ELSE IF status > 400 /\ status < 500
        THEN IF ~FailureSchema
             THEN Finish(c, Thrown("MissingFailureSchema", c.endpoint.s))
             ELSE [Log(c, "failure.parseAsync") EXCEPT
                      !.pc = "awaitValidate", !.schema = "failure",
                      !.awaited = answer]
        ELSE Finish(c, Thrown("ServerError",
                              [endpoint |-> c.endpoint.s, code |-> status]))

\* classify with a missing failure schema replaced by the success schema
classify_FallsBackToSuccess(c, answer) ==
    LET status == c.response.status
        FailureSchema == configuration.endpoints[c.endpoint.s].failure
    IN  IF status >= 200 /\ status < 300
        THEN [Log(c, "success.parseAsync") EXCEPT
                 !.pc = "awaitValidate", !.schema = "success",
                 !.awaited = answer]
        ELSE IF status >= 400 /\ status < 500
        THEN IF ~FailureSchema
             THEN [Log(c, "success.parseAsync") EXCEPT
                      !.pc = "awaitValidate", !.schema = "failure",
                      !.awaited = answer]
             ELSE [Log(c, "failure.parseAsync") EXCEPT
                      !.pc = "awaitValidate", !.schema = "failure",
                      !.awaited = answer]
        ELSE Finish(c, Thrown("ServerError",
                              [endpoint |-> c.endpoint.s, code |-> status]))

\* classify with every status from 400 up taken for a client error
classify_NoUpperBound(c, answer) ==
    LET status == c.response.status
        FailureSchema == configuration.endpoints[c.endpoint.s].failure
    IN  IF status >= 200 /\ status < 300
        THEN [Log(c, "success.parseAsync") EXCEPT
                 !.pc = "awaitValidate", !.schema = "success",
                 !.awaited = answer]
        ELSE IF status >= 400
        THEN IF ~FailureSchema
             THEN Finish(c, Thrown("MissingFailureSchema", c.endpoint.s))
             ELSE [Log(c, "failure.parseAsync") EXCEPT
                      !.pc = "awaitValidate", !.schema = "failure",
                      !.awaited = answer]
        ELSE Finish(c, Thrown("ServerError",
                              [endpoint |-> c.endpoint.s, code |-> status]))

\* the status classification of the thunk, once the body is parsed; answer is
\* what the schema it asks answers for that body
classify(c, answer) ==
    LET status == c.response.status
        FailureSchema == configuration.endpoints[c.endpoint.s].failure
    IN  IF status >= 200 /\ status < 300
        THEN [Log(c, "success.parseAsync") EXCEPT
                 !.pc = "awaitValidate", !.schema = "success",
                 !.awaited = answer]
        ELSE IF status >= 400 /\ status < 500
        THEN IF ~FailureSchema
             THEN Finish(c, Thrown("MissingFailureSchema", c.endpoint.s))
             ELSE [Log(c, "failure.parseAsync") EXCEPT
                      !.pc = "awaitValidate", !.schema = "failure",
                      !.awaited = answer]
        ELSE Finish(c, Thrown("ServerError",
                              [endpoint |-> c.endpoint.s, code |-> status]))

StatusKey == <<"s", "t", "a", "t", "u", "s">>
DataKey == <<"d", "a", "t", "a">>
CodeKey == <<"c", "o", "d", "e">>
Success == Str(<<"s", "u", "c", "c", "e", "s", "s">>)
Failure == Str(<<"f", "a", "i", "l", "u", "r", "e">>)

\* notJson that only looks for an absent Content-Type
notJson_AbsentOnly(contentType) == contentType = Null

\* !response.headers.get("content-type")?.includes("json")
notJson(contentType) ==
    contentType = Null \/ ~includes(contentType.s, <<"j", "s", "o", "n">>)

\* a catch that lets the error of an aborted read through
catchBody_RethrowsAbort(c, error) ==
    IF error = "AbortError" THEN Thrown("AbortError", <<>>)
    ELSE Thrown("InvalidJsonResponse", c.endpoint.s)

\* the catch after response.text().then(parse): whatever the error is, it
\* throws the invalid JSON error of the endpoint
catchBody(c, error) == Thrown("InvalidJsonResponse", c.endpoint.s)

\* readBody without the catch: the error of parse goes through
readBody_NoCatch(c, text, answer) ==
    LET parsed == parse(text)
        c1 == Log(c, "parse")
    IN  IF ~parsed.ok THEN Finish(c1, Thrown("SyntaxError", <<>>))
        ELSE classify([c1 EXCEPT !.body = parsed.value], answer)

\* the thunk from the text of the body to its next await
readBody(c, text, answer) ==
    LET parsed == parse(text)
        c1 == Log(c, "parse")
    IN  IF ~parsed.ok THEN Finish(c1, catchBody(c1, "SyntaxError"))
        ELSE classify([c1 EXCEPT !.body = parsed.value], answer)

\* result with the test of the failure schema the wrong way round
result_Inverted(c, validated) ==
    IF c.schema = "success"
    THEN IF configuration.endpoints[c.endpoint.s].failure THEN validated
         ELSE Obj(<<[k |-> StatusKey, v |-> Success],
                    [k |-> DataKey, v |-> validated]>>)
    ELSE Obj(<<[k |-> StatusKey, v |-> Failure],
               [k |-> DataKey, v |-> validated],
               [k |-> CodeKey, v |-> Num(c.response.status)]>>)

\* what the thunk returns for a validated body
result(c, validated) ==
    IF c.schema = "success"
    THEN IF ~configuration.endpoints[c.endpoint.s].failure THEN validated
         ELSE Obj(<<[k |-> StatusKey, v |-> Success],
                    [k |-> DataKey, v |-> validated]>>)
    ELSE Obj(<<[k |-> StatusKey, v |-> Failure],
               [k |-> DataKey, v |-> validated],
               [k |-> CodeKey, v |-> Num(c.response.status)]>>)

\* the line the default measure prints once the thunk has settled
measure(key) == <<"[API]", key, "took">>

(***************************************************************************)
(* One request of one client.  The arguments are fixed by the caller when  *)
(* request is called; the model draws options.variables, options.headers   *)
(* and the token where request first reads them, which gives the same      *)
(* executions.  Every action runs request from one await to the next.      *)
(***************************************************************************)
\* two requests are in flight
Concurrent == parked # NoCall

\* what two concurrent requests are given: two endpoints, one with a path
\* parameter and a search schema and one with a body, and a response of each
\* class
Few ==
    [endpoints |-> {Str(EndpointUser), Str(EndpointCreate)},
     signals |-> {FALSE},
     params |-> {Supplied(p) : p \in
                    {q \in ParamObjects :
                        /\ DOMAIN q = {<<"i">>}
                        /\ q[<<"i">>] \in {Str(<<"a">>), Num(12)}}},
     values |-> {Obj(<<[k |-> <<"a">>, v |-> Str(<<"x">>)]>>),
                 Obj(<<[k |-> <<"a", "B">>, v |-> Num(1)]>>)},
     headers |-> {NoHeadersInit, <<[k |-> <<"a">>, v |-> Str(<<"2">>)]>>},
     statuses |-> {200, 400, 500},
     contentTypes |-> {Null, Str(ContentTypeJson)},
     texts |-> {<<"N", "o", "t">>,
                <<"{", Quote, "a", "_", "b", Quote, ":", "1", "}">>}]

\* the inputs a step draws from: all of them for one request, few for two
Given(all, few) == IF Concurrent THEN all \cap few ELSE all

SearchInputs ==
    {[search |-> NotSupplied, answer |-> Returned(Undefined)]}
        \cup {[search |-> Supplied(v), answer |-> Returned(Undefined)] :
                 v \in SearchValues}
        \cup {[search |-> Supplied(v), answer |-> a] :
                 <<v, a>> \in {x \in SearchValues \X
                                  UNION {parseAsync(w) : w \in SearchValues} :
                                  x[2] \in parseAsync(x[1])}}

BodyInputs ==
    {[body |-> NotSupplied, answer |-> Returned(Undefined)]}
        \cup {[body |-> Supplied(v), answer |-> Returned(Undefined)] :
                 v \in BodyValues}
        \cup {[body |-> Supplied(v), answer |-> a] :
                 <<v, a>> \in {x \in BodyValues \X
                                  UNION {parseAsync(w) : w \in BodyValues} :
                                  x[2] \in parseAsync(x[1])}}

\* what request c reads: a schema answers only where request asks one (no
\* schema asked: Returned(Undefined)), and the token only where a hook gets it
SearchFor(c) ==
    {s \in SearchInputs :
        /\ (Concurrent /\ s.search.supplied)
           => s.search.value \in Few.values /\ s.answer.ok
        /\ s.search.supplied
           => (configuration.endpoints[c.endpoint.s].search
                  <=> s.answer # Returned(Undefined))}
BodyFor(c) ==
    {b \in BodyInputs :
        /\ (Concurrent /\ b.body.supplied)
           => b.body.value \in Few.values /\ b.answer.ok
        /\ b.body.supplied
           => ((c.method # GET /\ configuration.endpoints[c.endpoint.s].body)
                  <=> b.answer # Returned(Undefined))}
TokensFor(c) ==
    IF configuration.credentials = "none" THEN {Undefined} ELSE Tokens

Init ==
    /\ configuration \in Configurations
    /\ call = IdleCall
    /\ signalAborted = FALSE
    /\ consoleLog = <<>>
    /\ gpOriginalPath = <<>>
    /\ gpParams = <<>>
    /\ gpResult = NotCalled
    /\ codec = NoCodec
    /\ parked = NoCall

\* controller.abort() of the AbortController whose signal the caller passes;
\* a controller aborted before the call is one whose signal is passed
Abort ==
    /\ ~signalAborted
    /\ call.pc = "idle" \/ (call.pc # "done" /\ call.signal)
    /\ signalAborted' = TRUE
    /\ UNCHANGED <<configuration, call, consoleLog, gpOriginalPath, gpParams,
                   gpResult, codec, parked>>

\* client.request(endpoint, options), to `await getURL(...)`
Request ==
    /\ call.pc = "idle"
    /\ \E endpoint \in Given(EndpointArguments, Few.endpoints),
          signal \in Given(BOOLEAN, Few.signals),
          params \in Given(ParamsArguments, Few.params) :
          /\ signalAborted => signal
          /\ call' = request(call, endpoint, signal, params)
    /\ UNCHANGED <<configuration, signalAborted, consoleLog, gpOriginalPath,
                   gpParams, gpResult, codec, parked>>

\* getURL has settled: the search variables, or on to the headers
AfterURL ==
    /\ call.pc = "awaitURL"
    /\ IF ~call.awaited.ok THEN call' = Finish(call, call.awaited)
       ELSE LET c == [call EXCEPT !.url = call.awaited.value,
                                  !.awaited = Undefined,
                                  !.params = Undefined]
            IN  \E s \in SearchFor(c) :
                   LET c1 == [c EXCEPT !.search = s] IN
                   IF s.search.supplied THEN call' = getSearchParams(c1, s.answer)
                   ELSE \E h \in Given(CallHeaders, Few.headers),
                           token \in TokensFor(c),
                           b \in BodyFor(c) :
                           call' = prepare(c1, h, token, b.body, b.answer)
    /\ configuration' = spreadFetch(configuration, call')
    /\ UNCHANGED <<signalAborted, consoleLog, gpOriginalPath, gpParams,
                   gpResult, codec, parked>>

\* getSearchParams has settled: the query is encoded, on to the headers
AfterSearch ==
    /\ call.pc = "awaitSearch"
    /\ IF ~call.awaited.ok THEN call' = Finish(call, call.awaited)
       ELSE LET c == [call EXCEPT
                         !.url = IF configuration.endpoints[call.endpoint.s].search
                                 THEN encodeSearch(@, call.awaited.value)
                                 ELSE @,
                         !.awaited = Undefined]
            IN  \E h \in Given(CallHeaders, Few.headers), token \in TokensFor(c),
                   b \in BodyFor(c) :
                   call' = prepare(c, h, token, b.body, b.answer)
    /\ configuration' = spreadFetch(configuration, call')
    /\ UNCHANGED <<signalAborted, consoleLog, gpOriginalPath, gpParams,
                   gpResult, codec, parked>>

\* getBody has settled: init.body is set and the measurer is called
AfterBody ==
    /\ call.pc = "awaitBody"
    /\ IF ~call.awaited.ok THEN call' = Finish(call, call.awaited)
       ELSE call' = dispatch(
                [call EXCEPT
                    !.init.body =
                        IF configuration.endpoints[call.endpoint.s].body
                        THEN Str(serialize(call.awaited.value))
                        ELSE Undefined])
    /\ UNCHANGED <<configuration, signalAborted, consoleLog, gpOriginalPath,
                   gpParams, gpResult, codec, parked>>

\* a measurer that catches the error of its thunk and returns nothing
measurer_SwallowsError(settled) ==
    IF settled.ok THEN settled ELSE Returned(Undefined)

\* what the measurer settles with once its thunk has settled: the default
\* measure returns `await fn()` from its try, the hook of the tests returns fn()
measurer(settled) == settled

\* the thunk has moved to c: when that ends it, the measurer settles and the
\* default measure logs
ThunkStep(c) ==
    /\ call' = IF c.pc = "done"
               THEN [c EXCEPT !.thunk = c.outcome,
                              !.outcome = measurer(c.outcome)]
               ELSE c
    /\ consoleLog' =
          IF c.pc = "done" /\ configuration.measure = "default"
          THEN Append(consoleLog, measure(c.endpoint.s))
          ELSE consoleLog

\* fetch resolves with a response: the Content-Type check, then response.text()
Respond ==
    /\ call.pc = "awaitFetch"
    /\ ~(call.request.signal /\ signalAborted)
    /\ \E status \in Given(Statuses, Few.statuses),
          contentType \in Given(ContentTypes, Few.contentTypes) :
          LET c == [Log(call, "content-type") EXCEPT
                       !.request = Undefined, !.search = Undefined,
                       !.options = Undefined, !.hook = Undefined,
                       !.response = [status |-> status,
                                     contentType |-> contentType]]
          IN  IF notJson(contentType)
              THEN ThunkStep(Finish(c, Thrown("NonJsonResponse", c.endpoint.s)))
              ELSE ThunkStep([Log(c, "text") EXCEPT !.pc = "awaitText"])
    /\ UNCHANGED <<configuration, signalAborted, gpOriginalPath, gpParams,
                   gpResult, codec, parked>>

\* fetch rejects: the request was aborted, or the network failed
FetchRejects ==
    /\ call.pc = "awaitFetch"
    /\ ThunkStep(Finish(call,
            IF call.request.signal /\ signalAborted
            THEN Thrown("AbortError", <<>>)
            ELSE Thrown("NetworkError", <<>>)))
    /\ UNCHANGED <<configuration, signalAborted, gpOriginalPath, gpParams,
                   gpResult, codec, parked>>

\* response.text() resolves: parse, then the status classification
ReadBody ==
    /\ call.pc = "awaitText"
    /\ ~(call.signal /\ signalAborted)
    /\ \E text \in Given(BodyTexts, Few.texts) :
          IF parse(text).ok
          THEN \E answer \in parseAsync(parse(text).value) :
                  ThunkStep(readBody([call EXCEPT !.text = Str(text),
                                                  !.answer = answer],
                                     text, answer))
          ELSE ThunkStep(readBody([call EXCEPT !.text = Str(text)], text,
                                  Undefined))
    /\ UNCHANGED <<configuration, signalAborted, gpOriginalPath, gpParams,
                   gpResult, codec, parked>>

\* response.text() rejects, because the request was aborted or the network
\* failed while the body was read: the catch turns it into the invalid JSON
\* error
TextRejects ==
    /\ call.pc = "awaitText"
    /\ ThunkStep(Finish(call,
            catchBody(call, IF call.signal /\ signalAborted
                            THEN "AbortError" ELSE "NetworkError")))
    /\ UNCHANGED <<configuration, signalAborted, gpOriginalPath, gpParams,
                   gpResult, codec, parked>>

\* the response schema has answered: the thunk returns or throws
AfterValidate ==
    /\ call.pc = "awaitValidate"
    /\ ThunkStep(Finish(call,
            IF call.awaited.ok
            THEN Returned(result(call, call.awaited.value))
            ELSE call.awaited))
    /\ UNCHANGED <<configuration, signalAborted, gpOriginalPath, gpParams,
                   gpResult, codec, parked>>

Next ==
    \/ Abort
    \/ Request
    \/ AfterURL
    \/ AfterSearch
    \/ AfterBody
    \/ Respond
    \/ FetchRejects
    \/ ReadBody
    \/ TextRejects
    \/ AfterValidate

Spec == Init /\ [][Next]_vars

(***************************************************************************)
(* Two requests in flight on clients of one configuration.  Each has its   *)
(* own locals; between two awaits one of them runs, and at an await the    *)
(* event loop may resume the other.                                        *)
(***************************************************************************)
InitPair ==
    /\ configuration \in
          {conf \in Configurations :
              /\ conf.credentials # "none"
              /\ conf.fetchHeaders # NoHeadersInit
              /\ conf.endpoints[EndpointUser].failure}
    /\ call = IdleCall
    /\ parked = IdleCall
    /\ signalAborted = FALSE
    /\ consoleLog = <<>>
    /\ gpOriginalPath = <<>>
    /\ gpParams = <<>>
    /\ gpResult = NotCalled
    /\ codec = NoCodec

\* the request that runs is suspended at its await (or has ended, or is not
\* called yet) and the other one is resumed
Switch ==
    /\ Concurrent
    /\ call' = parked
    /\ parked' = call
    /\ UNCHANGED <<configuration, signalAborted, consoleLog, gpOriginalPath,
                   gpParams, gpResult, codec>>

NextPair == Next \/ Switch

SpecPair == InitPair /\ [][NextPair]_vars

\* one request, given what one of the two above is given, of a client of any
\* configuration with failure schemas (the second request is never called),
\* where every promise request awaits settles and its continuation runs:
\* getURL, the schemas, the transport and the reading of the body
InitLive ==
    /\ configuration \in
          {conf \in Configurations : conf.endpoints[EndpointUser].failure}
    /\ call = IdleCall
    /\ parked = IdleCall
    /\ signalAborted = FALSE
    /\ consoleLog = <<>>
    /\ gpOriginalPath = <<>>
    /\ gpParams = <<>>
    /\ gpResult = NotCalled
    /\ codec = NoCodec

SpecLive ==
    /\ InitLive
    /\ [][Next]_vars
    /\ WF_vars(AfterURL)
    /\ WF_vars(AfterSearch)
    /\ WF_vars(AfterBody)
    /\ WF_vars(Respond \/ FetchRejects)
    /\ WF_vars(ReadBody \/ TextRejects)
    /\ WF_vars(AfterValidate)

(***************************************************************************)
(* What the claims speak of.                                               *)
(***************************************************************************)
Done == call.pc = "done"
InLog(event) == \E i \in 1..Len(call.log) : call.log[i] = event
GotResponse == call.response # Undefined
Status == call.response.status
Json == <<"j", "s", "o", "n">>

\* the response has a Content-Type that contains "json"
JsonContentType ==
    /\ GotResponse
    /\ call.response.contentType # Null
    /\ includes(call.response.contentType.s, Json)

\* the text of the body has been read and it is a JSON text
BodyRead == call.text # Undefined
ParseableBody == BodyRead /\ JSONparse(call.text.s).ok

FailureDeclared == configuration.endpoints[call.endpoint.s].failure
ResponseValidated == InLog("success.parseAsync") \/ InLog("failure.parseAsync")
NotBuilt ==
    /\ ~InLog("generatePath")
    /\ ~InLog("credentials")
    /\ ~InLog("measure")
    /\ ~InLog("fetch")

SuccessResult(data) ==
    Obj(<<[k |-> StatusKey, v |-> Success], [k |-> DataKey, v |-> data]>>)
FailureResult(code, data) ==
    Obj(<<[k |-> StatusKey, v |-> Failure], [k |-> DataKey, v |-> data],
          [k |-> CodeKey, v |-> Num(code)]>>)
Tagged(v, tag) ==
    /\ v.t = "object"
    /\ \E i \in 1..Len(v.e) : v.e[i].k = StatusKey /\ v.e[i].v = tag

\* C1: a response with a JSON Content-Type, a parseable body and a status in
\* 200-299 whose body the success schema accepts makes request return the
\* validated value itself when the endpoint declares no failure schema, and
\* {status: "success", data: validated value} when it declares one.
C1_SuccessShape ==
    (Done /\ JsonContentType /\ ParseableBody /\ Status \in 200..299
        /\ call.answer.ok)
    => /\ call.schema = "success"
       /\ call.outcome =
             Returned(IF FailureDeclared THEN SuccessResult(call.answer.value)
                      ELSE call.answer.value)

C1_Witness ==
    /\ Done /\ JsonContentType /\ Status = 299 /\ FailureDeclared
    /\ call.outcome = Returned(SuccessResult(Obj(<<>>)))

\* C2: with a failure schema declared, a JSON response (JSON Content-Type and
\* JSON body) with a status s in 400-499 whose body the failure schema accepts
\* makes request return {status: "failure", code: s, data: validated body};
\* and a returned result tagged "failure" comes only from a status in 400-499
\* and carries that status as its code.
C2_FailureResult ==
    /\ (Done /\ JsonContentType /\ ParseableBody /\ FailureDeclared
           /\ Status \in 400..499 /\ call.answer.ok)
       => call.outcome = Returned(FailureResult(Status, call.answer.value))
    /\ (Done /\ call.outcome.ok /\ Tagged(call.outcome.value, Failure))
       => /\ GotResponse /\ Status \in 400..499
          /\ call.outcome.value.e[3] = [k |-> CodeKey, v |-> Num(Status)]

C2_Witness ==
    /\ Done /\ JsonContentType /\ Status = 499
    /\ call.outcome.ok /\ Tagged(call.outcome.value, Failure)

\* C3: with no failure schema declared, a JSON response (JSON Content-Type and
\* JSON body) with a status in 400-499 makes request fail with the
\* missing-failure-schema error naming the endpoint; nothing is returned and
\* the body is validated against no schema.
C3_MissingFailureSchema ==
    (JsonContentType /\ ParseableBody /\ ~FailureDeclared
        /\ Status \in 400..499)
    => /\ Done
       /\ call.outcome = Thrown("MissingFailureSchema", call.endpoint.s)
       /\ ~ResponseValidated

C3_Witness ==
    /\ Done /\ JsonContentType /\ ParseableBody /\ ~FailureDeclared
    /\ Status = 400
    /\ call.outcome = Thrown("MissingFailureSchema", EndpointUser)

\* C4 as stated: any response whose status is 500 makes request fail with the
\* server error naming the endpoint and the code 500.
C4_AnyResponse500 ==
    (Done /\ GotResponse /\ Status = 500)
    => call.outcome = Thrown("ServerError",
                             [endpoint |-> call.endpoint.s, code |-> 500])

\* C4 amended: a response whose status is 500, whose Content-Type contains
\* "json" and whose body is read and parses as JSON makes request fail with
\* the server error naming the endpoint and the code 500, with or without a
\* failure schema.
C4_JsonResponse500 ==
    (JsonContentType /\ ParseableBody /\ Status = 500)
    => /\ Done
       /\ call.outcome = Thrown("ServerError",
                                [endpoint |-> call.endpoint.s, code |-> 500])

C4_Witness ==
    /\ Done /\ JsonContentType /\ ParseableBody /\ Status = 500
    /\ FailureDeclared
    /\ call.outcome.error = "ServerError"

\* C5: whatever the status, a response whose Content-Type is absent or does
\* not contain "json" makes request fail with the non-JSON-response error
\* naming the endpoint; the body is not read or parsed, no schema is asked and
\* the status is not classified.
C5_NonJsonResponse ==
    (GotResponse /\ ~JsonContentType)
    => /\ Done
       /\ call.outcome = Thrown("NonJsonResponse", call.endpoint.s)
       /\ ~BodyRead /\ ~InLog("text") /\ ~InLog("parse")
       /\ ~ResponseValidated /\ call.schema = "none"

C5_Witness ==
    /\ Done /\ GotResponse /\ Status = 500
    /\ call.response.contentType = Null
    /\ call.outcome.error = "NonJsonResponse"

\* C6: a response whose Content-Type contains "json" but whose body text is
\* not valid JSON makes request fail with the invalid-JSON-response error
\* naming the endpoint, whatever the status, and no schema is asked.
C6_InvalidJsonResponse ==
    (JsonContentType /\ BodyRead /\ ~ParseableBody)
    => /\ Done
       /\ call.outcome = Thrown("InvalidJsonResponse", call.endpoint.s)
       /\ ~ResponseValidated /\ call.schema = "none"

C6_Witness ==
    /\ Done /\ JsonContentType /\ BodyRead /\ ~ParseableBody
    /\ Status = 400 /\ ~FailureDeclared
    /\ call.outcome.error = "InvalidJsonResponse"

\* C7 as stated: an endpoint that is not a string makes request fail with the
\* invalid-endpoint error, and a string that is not a key of the endpoint
\* registry makes it fail with the unknown-endpoint error naming it; both
\* before any URL is built, any hook is called and anything is sent.
C7_EndpointCheck ==
    /\ (call.pc # "idle" /\ call.endpoint.t # "string")
       => /\ Done /\ call.outcome = Thrown("InvalidEndpoint", <<>>)
          /\ NotBuilt
    /\ (call.pc # "idle" /\ call.endpoint.t = "string"
           /\ call.endpoint.s \notin DOMAIN configuration.endpoints)
       => /\ Done /\ call.outcome = Thrown("MissingEndpoint", call.endpoint.s)
          /\ NotBuilt

\* C8 as stated: a handle already cancelled when request is called makes
\* request fail with a cancellation error, and neither the transport send nor
\* the measurement hook is invoked.
C8_AlwaysCancellationError ==
    (call.pc # "idle" /\ call.signal /\ call.abortedAtCall)
    => /\ ~InLog("fetch") /\ ~InLog("measure")
       /\ Done => call.outcome = Thrown("AbortError", <<>>)

PreDispatchErrors == {"InvalidEndpoint", "MissingEndpoint", "ZodError", "MissingParam"}

\* C8 amended: a handle already cancelled when request is called makes request
\* fail without the transport send or the measurement hook being invoked: with
\* a cancellation error when the stages before the cancellation check succeed,
\* and with the error of the stage that fails otherwise.
C8_CancelledBeforeCall ==
    (call.pc # "idle" /\ call.signal /\ call.abortedAtCall)
    => /\ ~InLog("fetch") /\ ~InLog("measure")
       /\ call.pc \in {"awaitURL", "awaitSearch", "done"}
       /\ Done =>
            /\ ~call.outcome.ok
            /\ InLog("mergeHeaders") => call.outcome = Thrown("AbortError", <<>>)
            /\ ~InLog("mergeHeaders") => call.outcome.error \in PreDispatchErrors

C8_Witness ==
    /\ Done /\ call.signal /\ call.abortedAtCall
    /\ InLog("credentials")
    /\ call.outcome = Thrown("AbortError", <<>>)

\* C9: a path with a required `:name` piece whose parameter is absent, null or
\* undefined makes the templater fail with the missing-parameter error naming
\* it, and request fails with that error before the credentials hook runs and
\* before anything is sent.
C9_MissingParameter ==
    (call.missing # Undefined)
    => /\ call.pc \in {"awaitURL", "done"}
       /\ call.pc = "awaitURL"
            => call.awaited = Thrown("MissingParam", call.missing.s)
       /\ Done => call.outcome = Thrown("MissingParam", call.missing.s)
       /\ ~InLog("mergeHeaders") /\ ~InLog("credentials")
       /\ ~InLog("measure") /\ ~InLog("fetch")

C9_Witness ==
    /\ Done /\ call.path = <<"/", "u", "/", ":", "i", "/", ":", "j">>
    /\ call.missing = Str(<<"j">>)
    /\ call.outcome = Thrown("MissingParam", <<"j">>)
    /\ configuration.credentials # "none"

\* the pieces of a path between its `/`, and what makes a path one of literal
\* and required `:name` pieces only
Pieces(path) == split(path, "/")
IsName(p) == Len(p) >= 1 /\ \A i \in 1..Len(p) : p[i] \in WordChars
IsRequired(p) == Len(p) >= 2 /\ p[1] = ":" /\ IsName(Tail(p))
LiteralAndRequiredOnly(path) ==
    /\ \E i \in 1..Len(Pieces(path)) : Pieces(path)[i] # <<>>
    /\ \A i \in 1..Len(Pieces(path)) :
          \/ IsName(Pieces(path)[i])
          \/ IsRequired(Pieces(path)[i])
          \/ Pieces(path)[i] = <<>> /\ i \in {1, Len(Pieces(path))}

\* C10 as stated: for a path of literal and required `:name` pieces only and
\* params that give every name a non-null string or number, the expanded path
\* split on `/` is the path's pieces, in order and number, each `:name`
\* replaced by the string form of its parameter and each literal unchanged.
C10_PiecesPreserved ==
    (/\ gpResult # NotCalled
     /\ LiteralAndRequiredOnly(gpOriginalPath)
     /\ \A i \in 1..Len(Pieces(gpOriginalPath)) :
           IsRequired(Pieces(gpOriginalPath)[i])
           => /\ Tail(Pieces(gpOriginalPath)[i]) \in DOMAIN gpParams
              /\ gpParams[Tail(Pieces(gpOriginalPath)[i])].t
                    \in {"string", "number"})
    => /\ gpResult.ok
       /\ split(gpResult.value, "/") =
             [i \in 1..Len(Pieces(gpOriginalPath)) |->
                 IF IsRequired(Pieces(gpOriginalPath)[i])
                 THEN String(gpParams[Tail(Pieces(gpOriginalPath)[i])])
                 ELSE Pieces(gpOriginalPath)[i]]

\* the request is built: its URL and headers, as request holds them, as the
\* transport got them, and as the credentials hook got them
Built == call.pc \in {"awaitBody", "awaitFetch"}
SentURL == IF call.pc = "awaitFetch" THEN call.request.url ELSE call.url
SentHeaders ==
    IF call.pc = "awaitFetch" THEN call.request.headers ELSE call.headers
BuiltURL == IF call.hook # Undefined THEN call.hook.url ELSE SentURL
MergedHeaders == IF call.hook # Undefined THEN call.hook.headers ELSE SentHeaders
SearchDeclared == configuration.endpoints[call.endpoint.s].search
BodyDeclared == configuration.endpoints[call.endpoint.s].body
Count(event) == Cardinality({i \in 1..Len(call.log) : call.log[i] = event})

\* the pairs one entry of the search value stands for, by its run-time type
Contribution(key, value) ==
    CASE value.t \in {"string", "boolean", "number"} ->
            <<[k |-> key, v |-> String(value)]>>
      [] value.t = "array" ->
            [i \in 1..Len(value.a) |-> [k |-> key, v |-> String(value.a[i])]]
      [] value.t = "object" ->
            [i \in 1..Len(value.e) |->
                [k |-> key \o <<"[">> \o value.e[i].k \o <<"]">>,
                 v |-> String(value.e[i].v)]]
      [] OTHER -> <<>>

RECURSIVE Contributions(_, _)
Contributions(entries, i) ==
    IF i > Len(entries) THEN <<>>
    ELSE Contribution(entries[i].k, entries[i].v) \o Contributions(entries, i + 1)

\* C11: the query of the URL request builds from a validated search value is,
\* entry by entry, the contribution fixed by the entry's run-time type: one
\* pair key=String(value) for a string, boolean or number; one pair
\* key=String(element) per element of an array, in order and with duplicates
\* (none for an empty array); one pair key[k]=String(v) per own entry of an
\* object, in order; nothing for null and for any other type.
C11_QueryEncoder ==
    (Built /\ call.search.search.supplied /\ SearchDeclared)
    => BuiltURL.searchParams = Contributions(call.search.answer.value.e, 1)

C11_Witness ==
    /\ call.pc = "awaitFetch" /\ call.search.search.supplied /\ SearchDeclared
    /\ call.search.answer.value =
          Obj(<<[k |-> <<"i">>, v |-> Arr(<<Num(1), Num(2), Num(1)>>)],
                [k |-> <<"b">>, v |-> Bool(TRUE)]>>)
    /\ BuiltURL.searchParams =
          <<[k |-> <<"i">>, v |-> <<"1">>], [k |-> <<"i">>, v |-> <<"2">>],
            [k |-> <<"i">>, v |-> <<"1">>],
            [k |-> <<"b">>, v |-> <<"t", "r", "u", "e">>]>>

\* the names of a header source, case folded, and the value a name has in it
Names(init) == {toLowerCase(init[i].k) : i \in 1..Len(init)}
ValueIn(init, name) ==
    String(init[CHOOSE i \in 1..Len(init) : toLowerCase(init[i].k) = name].v)
Winner(name) ==
    IF name \in Names(call.options.headers)
    THEN ValueIn(call.options.headers, name)
    ELSE ValueIn(configuration.fetchHeaders, name)

\* C12: the headers request merges hold, for every name of the client-level
\* and the per-call headers compared without case, the value of the per-call
\* source if it has the name and of the client-level source otherwise; a
\* winning value of undefined or "undefined" leaves the name out; no other
\* name is there.
C12_HeaderMerge ==
    Built =>
       /\ DOMAIN MergedHeaders \subseteq
             Names(configuration.fetchHeaders) \cup Names(call.options.headers)
       /\ \A name \in Names(configuration.fetchHeaders)
                         \cup Names(call.options.headers) :
             IF Winner(name) = StringUndefined
             THEN name \notin DOMAIN MergedHeaders
             ELSE name \in DOMAIN MergedHeaders
                     /\ MergedHeaders[name] = Winner(name)

C12_Witness ==
    /\ call.pc = "awaitFetch"
    /\ configuration.fetchHeaders = <<[k |-> <<"A">>, v |-> Str(<<"1">>)]>>
    /\ call.options.headers = <<[k |-> <<"a">>, v |-> Str(StringUndefined)]>>
    /\ <<"a">> \notin DOMAIN call.request.headers

\* the query the search variables of the request stand for
ExpectedQuery ==
    IF call.search.search.supplied /\ SearchDeclared
    THEN Contributions(call.search.answer.value.e, 1)
    ELSE <<>>
TokenPair == [k |-> <<"t", "o", "k", "e", "n">>, v |-> call.options.token.s]
WithAuthorization(headers, value) ==
    [n \in DOMAIN headers \cup {toLowerCase(Authorization)} |->
        IF n = toLowerCase(Authorization) THEN value ELSE headers[n]]

\* C13: a configured credentials hook is called once by every request that
\* gets as far as the headers and by no other, with the URL built so far, the
\* merged headers and the token of the client; what the hook does to the URL
\* and the headers is in the request the transport gets, whatever the
\* client-level and per-call headers are; with no hook the URL and the headers
\* go to the transport as built.
C13_CredentialsHook ==
    /\ Count("credentials") =
          IF configuration.credentials # "none" /\ InLog("mergeHeaders")
          THEN 1 ELSE 0
    /\ (Built /\ configuration.credentials # "none")
       => /\ call.hook # Undefined
          /\ call.hook.token = call.options.token
          /\ call.hook.url = [SentURL EXCEPT !.searchParams = ExpectedQuery]
    /\ (Built /\ configuration.credentials = "url")
       => /\ SentURL.searchParams =
                IF Truthy(call.options.token)
                THEN Append(ExpectedQuery, TokenPair) ELSE ExpectedQuery
          /\ SentHeaders = call.hook.headers
    /\ (Built /\ configuration.credentials = "headers")
       => /\ SentURL = call.hook.url
          /\ SentHeaders =
                IF Truthy(call.options.token)
                THEN WithAuthorization(call.hook.headers, call.options.token.s)
                ELSE call.hook.headers
    /\ (Built /\ configuration.credentials = "none")
       => /\ call.hook = Undefined
          /\ SentURL.searchParams = ExpectedQuery

C13_Witness ==
    /\ call.pc = "awaitFetch" /\ configuration.credentials = "headers"
    /\ call.options.headers = <<[k |-> Authorization, v |-> Str(<<"2">>)]>>
    /\ call.hook.token = Str(<<"k">>)
    /\ call.hook.headers[toLowerCase(Authorization)] = <<"2">>
    /\ call.request.headers[toLowerCase(Authorization)] = <<"k">>

\* what happens in the thunk handed to the measurer
ThunkEvents ==
    {"fetch", "content-type", "text", "parse", "success.parseAsync",
     "failure.parseAsync"}

\* C14: the default measure runs its thunk once, settles as the thunk settles
\* (same value, same error), and logs one line "[API] <endpoint> took <ms>ms",
\* once the thunk has settled and not before.
C14_DefaultMeasure ==
    configuration.measure = "default"
    => /\ Count("fetch") = IF InLog("measure") THEN 1 ELSE 0
       /\ consoleLog =
             IF Done /\ InLog("measure")
             THEN <<<<"[API]", call.endpoint.s, "took">>>> ELSE <<>>
       /\ (Done /\ InLog("measure"))
          => call.thunk # Pending /\ call.outcome = call.thunk

C14_Witness ==
    /\ configuration.measure = "default" /\ Done
    /\ call.thunk.ok = FALSE /\ call.thunk.error = "ServerError"
    /\ call.outcome = call.thunk
    /\ Len(consoleLog) = 1

\* C15: a request that passes the stages before dispatch calls the measurer
\* once, and a request that does not never calls it; the send, the reading and
\* parsing of the body and the validation of the response happen only after
\* the measurer is called, inside its thunk; request settles as the measurer
\* does: as the thunk when the hook passes it through, with the error of the
\* hook when the hook throws.
C15_MeasureWraps ==
    /\ Count("measure") <= 1
    /\ \A i \in 1..Len(call.log) :
          call.log[i] \in ThunkEvents
          => \E j \in 1..(i - 1) : call.log[j] = "measure"
    /\ call.pc \in {"awaitFetch", "awaitText", "awaitValidate"}
       => Count("measure") = 1
    /\ (Done /\ ~InLog("measure"))
       => /\ ~call.outcome.ok
          /\ call.outcome.error \in PreDispatchErrors \cup {"AbortError"}
          /\ call.thunk = Pending
    /\ (Done /\ InLog("measure"))
       => IF configuration.measure = "throws"
          THEN /\ call.outcome = Thrown("MeasureError", <<>>)
               /\ call.thunk = Pending /\ ~InLog("fetch")
          ELSE call.thunk # Pending /\ call.outcome = call.thunk

C15_Witness ==
    /\ configuration.measure = "throws" /\ Done
    /\ InLog("body.parseAsync") /\ InLog("measure")
    /\ call.outcome = Thrown("MeasureError", <<>>)

RECURSIVE KeysOf(_)
\* the keys of the objects of a value, at every depth
KeysOf(v) ==
    CASE v.t = "object" ->
            {v.e[i].k : i \in 1..Len(v.e)}
                \cup UNION {KeysOf(v.e[i].v) : i \in 1..Len(v.e)}
      [] v.t = "array" -> UNION {KeysOf(v.a[i]) : i \in 1..Len(v.a)}
      [] OTHER -> {}

\* a camelCase identifier: letters and digits, the first a lower-case letter,
\* every capital the start of a word (no capital right after a capital)
IsCamelCase(key) ==
    /\ key # <<>> /\ IsLower(key[1])
    /\ \A i \in 1..Len(key) : IsAlnum(key[i])
    /\ \A i \in 1..(Len(key) - 1) : ~(IsUpper(key[i]) /\ IsUpper(key[i + 1]))

BodySupplied == call.options.body.supplied
SentBody == IF call.pc = "awaitFetch" THEN call.request.body ELSE Undefined

\* C17: a body supplied to a non-GET endpoint that declares a body schema is
\* validated by that schema and the validated value goes to the transport as
\* JSON text with snake_case keys; a GET request asks no body schema and has
\* no body; a body supplied to a non-GET endpoint with no body schema is not
\* validated, not sent, and no error.
C17_Body ==
    Built =>
       /\ (call.method # GET /\ BodySupplied /\ BodyDeclared)
          => /\ InLog("body.parseAsync")
             /\ call.pc = "awaitBody" => call.awaited = call.options.answer
             /\ call.pc = "awaitFetch"
                => /\ call.request.body =
                         Str(serialize(call.options.answer.value))
                   /\ \A key \in KeysOf(JSONparse(call.request.body.s).value) :
                         \A i \in 1..Len(key) : ~IsUpper(key[i])
       /\ call.method = GET
          => /\ ~InLog("getBody") /\ ~InLog("body.parseAsync")
             /\ call.pc = "awaitFetch" /\ call.request.body = Undefined
       /\ (call.method # GET /\ BodySupplied /\ ~BodyDeclared)
          => /\ ~InLog("body.parseAsync")
             /\ call.pc = "awaitBody" => call.awaited = Returned(Undefined)
             /\ SentBody = Undefined
       /\ ~BodySupplied => ~InLog("getBody") /\ SentBody = Undefined

C17_Witness ==
    /\ call.pc = "awaitFetch" /\ call.method = POST
    /\ call.options.answer =
          Returned(Obj(<<Entry(<<"a", "B">>, Num(1))>>))
    /\ call.request.body =
          Str(<<"{", Quote, "a", "_", "b", Quote, ":", "1", "}">>)

\* C18 as stated: route parameters supplied to request are validated against
\* the params schema of the endpoint before the path templater runs.
C18_ParamsValidated ==
    (call.pc = "awaitURL" /\ call.params.supplied)
    => /\ InLog("params.parseAsync")
       /\ \A i, j \in 1..Len(call.log) :
             (call.log[i] = "params.parseAsync" /\ call.log[j] = "generatePath")
             => i < j

\* C19: search variables are validated and encoded only for an endpoint that
\* declares a search schema, and the query is the encoding of what the schema
\* returned; with no search schema, supplied search variables are not
\* validated, leave the URL without a query and raise no error.
C19_Search ==
    call.search # Undefined
    => /\ (call.search.search.supplied /\ SearchDeclared)
          => /\ InLog("search.parseAsync")
             /\ call.pc = "awaitSearch" => call.awaited = call.search.answer
             /\ Built
                => BuiltURL.searchParams =
                      Contributions(call.search.answer.value.e, 1)
       /\ (call.search.search.supplied /\ ~SearchDeclared)
          => /\ ~InLog("search.parseAsync")
             /\ call.pc = "awaitSearch" => call.awaited = Returned(Undefined)
             /\ Built => BuiltURL.searchParams = <<>>
       /\ ~call.search.search.supplied
          => /\ ~InLog("getSearchParams")
             /\ Built /\ BuiltURL.searchParams = <<>>

C19_Witness ==
    /\ call.pc = "awaitFetch" /\ SearchDeclared
    /\ call.search.search =
          Supplied(Obj(<<Entry(<<"a">>, Str(<<"x">>))>>))
    /\ call.search.answer = Returned(Obj(<<>>))
    /\ call.request.url.searchParams = <<>>

\* C20: a request sends at most once: once when the stages before dispatch
\* succeed and the measurer runs its thunk, never again whatever the outcome
\* (transport error, non-JSON or invalid body, status, validation failure).
C20_OneSend ==
    /\ Count("fetch") <= 1
    /\ (InLog("measure") /\ configuration.measure # "throws")
       => Count("fetch") = 1
    /\ call.pc \in {"awaitFetch", "awaitText", "awaitValidate"}
       => Count("fetch") = 1
    /\ call.thunk # Pending => Count("fetch") = 1
    /\ ~InLog("measure") => Count("fetch") = 0

C20_Witness ==
    /\ Done /\ configuration.measure = "custom"
    /\ call.outcome = Thrown("NetworkError", <<>>)
    /\ Count("fetch") = 1

\* the request c has what its own arguments, the token of its client and its
\* own response make of it
Isolated(c) ==
    LET declared == configuration.endpoints[c.endpoint.s]
        url == IF c.pc = "awaitFetch" THEN c.request.url ELSE c.url
        headers == IF c.pc = "awaitFetch" THEN c.request.headers ELSE c.headers
        query == IF c.search.search.supplied /\ declared.search
                 THEN Contributions(c.search.answer.value.e, 1) ELSE <<>>
        merged == mergeHeaders(<<Headers(configuration.fetchHeaders),
                                 Headers(c.options.headers)>>)
        token == c.options.token
    IN  /\ c.pc = "awaitURL" => c.awaited = getURL(c.path, c.params)
        /\ c.pc \in {"awaitBody", "awaitFetch"}
           => /\ url.searchParams =
                    IF configuration.credentials = "url" /\ Truthy(token)
                    THEN Append(query, [k |-> <<"t", "o", "k", "e", "n">>,
                                        v |-> token.s])
                    ELSE query
              /\ headers =
                    IF configuration.credentials = "headers" /\ Truthy(token)
                    THEN WithAuthorization(merged, token.s) ELSE merged
        /\ c.pc = "awaitFetch"
           => c.request.body =
                 IF c.method # GET /\ c.options.body.supplied /\ declared.body
                 THEN Str(serialize(c.options.answer.value)) ELSE Undefined
        /\ (c.pc = "done" /\ c.thunk # Pending /\ c.schema # "none")
           => c.outcome = IF c.answer.ok
                          THEN Returned(result(c, c.answer.value))
                          ELSE c.answer

\* C21: whatever the interleaving of two requests in flight, no step changes
\* the configuration (endpoints, client-level fetch options), and each of the
\* two requests has the URL, the headers, the body and the result that its own
\* arguments, the token of its client and its own response give: what the
\* credentials hook did for one is not in the other.
C21_Isolation ==
    [][/\ configuration' = configuration
       /\ Isolated(call')
       /\ Isolated(parked')]_vars

C21_Witness ==
    /\ call.pc = "awaitFetch" /\ parked.pc = "awaitFetch"
    /\ call.endpoint = parked.endpoint
    /\ configuration.credentials = "headers"
    /\ call.options.token = Undefined /\ parked.options.token = Str(<<"k">>)
    /\ toLowerCase(Authorization) \in DOMAIN parked.request.headers
    /\ toLowerCase(Authorization) \notin DOMAIN call.request.headers

\* the schema asked for the search variables, or for the body, has rejected
\* them and request is at that await
SearchRejected == call.pc = "awaitSearch" /\ ~call.search.answer.ok
BodyRejected == call.pc = "awaitBody" /\ ~call.options.answer.ok

\* C22: when the search schema rejects the search variables, or the body
\* schema of a non-GET endpoint rejects the body, the next step of request ends
\* it with the error of the validator as it is, and neither the measurer nor
\* the transport has been called.
C22_InputRejected ==
    [][(call' # call /\ (SearchRejected \/ BodyRejected))
       => /\ call'.pc = "done"
          /\ call'.outcome =
                IF SearchRejected THEN call.search.answer
                ELSE call.options.answer
          /\ call'.outcome = Thrown("ZodError", <<>>)
          /\ call'.thunk = Pending
          /\ \A i \in 1..Len(call'.log) :
                call'.log[i] \notin {"measure", "fetch"}]_vars

C22_Witness ==
    /\ Done /\ call.outcome = Thrown("ZodError", <<>>)
    /\ InLog("body.parseAsync") /\ call.method = POST
    /\ ~InLog("measure") /\ ~InLog("fetch")

\* the schema the status selects has rejected the parsed body of the response
ResponseRejected ==
    /\ JsonContentType /\ ParseableBody
    /\ call.answer # Undefined /\ ~call.answer.ok
    /\ \/ Status >= 200 /\ Status < 300
       \/ Status >= 400 /\ Status < 500 /\ FailureDeclared

\* C23: when the success schema rejects the parsed body of a 2xx response, or
\* the declared failure schema that of a 4xx response, request fails with the
\* error of the validator: it returns no result, one schema only is asked, and
\* a 2xx body is never handed to the failure schema.
C23_ResponseRejected ==
    ResponseRejected
    => /\ Count("success.parseAsync") + Count("failure.parseAsync") = 1
       /\ InLog("success.parseAsync") <=> (Status >= 200 /\ Status < 300)
       /\ call.pc = "awaitValidate" => call.awaited = call.answer
       /\ Done
          => /\ call.thunk = call.answer
             /\ call.outcome = measurer(call.answer)
             /\ call.outcome = Thrown("ZodError", <<>>)

C23_Witness ==
    /\ Done /\ GotResponse /\ Status = 200 /\ FailureDeclared
    /\ InLog("success.parseAsync") /\ ~InLog("failure.parseAsync")
    /\ call.answer = Thrown("ZodError", <<>>)
    /\ call.outcome = Thrown("ZodError", <<>>)

\* the status is in neither of the ranges request classifies
OtherStatus ==
    /\ ~(Status >= 200 /\ Status < 300)
    /\ ~(Status >= 400 /\ Status < 500)

\* C24: a response with a JSON Content-Type and a body that parses whose status
\* is outside 200-299 and outside 400-499 makes request fail with the server
\* error naming the endpoint and that status, with or without a failure
\* schema, and neither schema is asked.
C24_OtherStatus ==
    (JsonContentType /\ ParseableBody /\ OtherStatus)
    => /\ Done
       /\ call.thunk = Thrown("ServerError",
                              [endpoint |-> call.endpoint.s, code |-> Status])
       /\ call.outcome = measurer(call.thunk)
       /\ ~ResponseValidated
       /\ call.schema = "none"

C24_Witness ==
    /\ Done /\ JsonContentType /\ ParseableBody /\ Status = 300
    /\ ~FailureDeclared
    /\ call.outcome = Thrown("ServerError",
                             [endpoint |-> call.endpoint.s, code |-> 300])

\* a path with no `:name` or `:name?` piece and no `*`
NoParameter(path) ==
    /\ \A i \in 1..Len(path) : path[i] # "*"
    /\ \A i \in 1..Len(Pieces(path)) : ~keyMatch(Pieces(path)[i]).match

\* C25 as stated: generatePath returns a path with no `:name` piece and no `*`
\* as it is, whatever the params.
C25_Unchanged ==
    (gpResult # NotCalled /\ NoParameter(gpOriginalPath))
    => gpResult = Returned(gpOriginalPath)

\* a path of literal and `:name?` pieces, one `/` between them, with at least
\* one `:name?`
IsOptional(p) == keyMatch(p).match /\ keyMatch(p).optional
LiteralAndOptionalOnly(path) ==
    /\ \E i \in 1..Len(Pieces(path)) : IsOptional(Pieces(path)[i])
    /\ \A i \in 1..Len(Pieces(path)) :
          \/ IsName(Pieces(path)[i])
          \/ IsOptional(Pieces(path)[i])
          \/ Pieces(path)[i] = <<>> /\ i \in {1, Len(Pieces(path))}

\* the path with every `:name?` made `:name`
RequiredForm(path) == SelectSeq(path, LAMBDA ch : ch # "?")

\* the pieces of a path that are not empty
Filled(path) == SelectSeq(Pieces(path), LAMBDA p : p # <<>>)

\* every `:name?` of the path has a value, or none has
Present(path, params) ==
    \A i \in 1..Len(Pieces(path)) :
       IsOptional(Pieces(path)[i])
       => ~IsNullish(Param(params, keyMatch(Pieces(path)[i]).key))
Absent(path, params) ==
    \A i \in 1..Len(Pieces(path)) :
       IsOptional(Pieces(path)[i])
       => IsNullish(Param(params, keyMatch(Pieces(path)[i]).key))

\* C26 as stated: for a path of literal and `:name?` pieces generatePath does
\* not fail; with the parameter absent, null or undefined the piece is left
\* out, with no empty piece and no doubled `/` in the result; with the
\* parameter present the result is that of the path with `:name` in place of
\* `:name?`; a leading and a trailing `/` of the path are in the result.
C26_Optional ==
    (gpResult # NotCalled /\ LiteralAndOptionalOnly(gpOriginalPath))
    => /\ gpResult.ok
       /\ Absent(gpOriginalPath, gpParams)
          => /\ Filled(gpResult.value) =
                   SelectSeq(Filled(gpOriginalPath), LAMBDA p : ~IsOptional(p))
             /\ \A i \in 1..(Len(gpResult.value) - 1) :
                   ~(gpResult.value[i] = "/" /\ gpResult.value[i + 1] = "/")
       /\ Present(gpOriginalPath, gpParams)
          => gpResult = generatePath(RequiredForm(gpOriginalPath), gpParams)
       /\ startsWith(gpOriginalPath, <<"/">>)
          => startsWith(gpResult.value, <<"/">>)
       /\ endsWith(gpOriginalPath, <<"/">>)
          => endsWith(gpResult.value, <<"/">>)

\* the stages of request in their order: the events each logs and the errors
\* a request can end with in it
Stages ==
    <<[events |-> <<"typeof", "in">>,
       errors |-> {"InvalidEndpoint", "MissingEndpoint"}],
      [events |-> <<"method">>, errors |-> {"ZodError"}],
      [events |-> <<"generatePath">>, errors |-> {"MissingParam"}],
      [events |-> <<"getSearchParams", "search.parseAsync">>,
       errors |-> {"ZodError"}],
      [events |-> <<"mergeHeaders">>, errors |-> {}],
      [events |-> <<"credentials">>, errors |-> {}],
      [events |-> <<"signal.aborted">>, errors |-> {"AbortError"}],
      [events |-> <<"getBody", "body.parseAsync">>, errors |-> {"ZodError"}],
      [events |-> <<"measure">>, errors |-> {"MeasureError"}],
      [events |-> <<"fetch">>, errors |-> {"AbortError", "NetworkError"}],
      [events |-> <<"content-type">>, errors |-> {"NonJsonResponse"}],
      [events |-> <<"text", "parse">>,
       errors |-> {"InvalidJsonResponse", "MissingFailureSchema",
                   "ServerError"}],
      [events |-> <<"success.parseAsync", "failure.parseAsync">>,
       errors |-> {"ZodError"}]>>
Events ==
    UNION {{Stages[n].events[k] : k \in 1..Len(Stages[n].events)} :
              n \in 1..Len(Stages)}
Stage ==
    [event \in Events |->
        CHOOSE n \in 1..Len(Stages) :
           \E k \in 1..Len(Stages[n].events) : Stages[n].events[k] = event]
Place ==
    [event \in Events |->
        CHOOSE k \in 1..Len(Stages[Stage[event]].events) :
           Stages[Stage[event]].events[k] = event]

\* the log c has: stage after stage, no event twice and one schema for the
\* response
InOrder(c) ==
    \A i \in 1..(Len(c.log) - 1) :
       \/ Stage[c.log[i]] < Stage[c.log[i + 1]]
       \/ /\ Stage[c.log[i]] = Stage[c.log[i + 1]]
          /\ Place[c.log[i]] < Place[c.log[i + 1]]
          /\ Stage[c.log[i]] # Len(Stages)

\* C27: the stages of a request happen in one order, each at most once:
\* endpoint check, method, path, query, header merge, credentials hook,
\* cancellation check, body, measurer, send, Content-Type check, body read and
\* parse, classification and response validation.  A request that fails has the
\* error of the last stage it entered and enters no stage after it; the
\* credentials hook gets the URL with its query and the merged headers, before
\* the body is validated.
C27_StageOrder ==
    [][/\ InOrder(call')
       /\ Done => call' = call
       /\ (call'.pc = "done" /\ ~call'.outcome.ok)
          => call'.outcome.error
                \in Stages[Stage[call'.log[Len(call'.log)]]].errors
       /\ (call'.hook # Undefined)
          => /\ call'.hook.url.searchParams =
                   IF call'.search.search.supplied
                      /\ configuration.endpoints[call'.endpoint.s].search
                   THEN Contributions(call'.search.answer.value.e, 1)
                   ELSE <<>>
             /\ call'.hook.headers =
                   mergeHeaders(<<Headers(configuration.fetchHeaders),
                                  Headers(call'.options.headers)>>)]_vars

C27_Witness ==
    /\ Done /\ call.outcome.ok
    /\ call.log =
          <<"typeof", "in", "method", "generatePath", "mergeHeaders",
            "credentials", "signal.aborted", "getBody", "body.parseAsync",
            "measure", "fetch", "content-type", "text", "parse",
            "success.parseAsync">>

\* request has looked at signal.aborted, found it false and gone on, and the
\* signal is aborted now
CancelledAfterCheck ==
    /\ InLog("signal.aborted") /\ ~Done
    /\ signalAborted

\* C28: request reads signal.aborted once, before the measurer is called, when
\* it is given a signal and gets as far as the check, and never otherwise.  When
\* the signal is aborted after the check, the step that follows the validation
\* of the body calls the measurer and hands the request to the transport with
\* the signal; request throws no AbortError of its own, and an AbortError it
\* ends with after the check is the one the transport rejected with.
C28_OneCheck ==
    [][/\ Cardinality({i \in 1..Len(call'.log) :
                          call'.log[i] = "signal.aborted"})
             = IF call'.signal
                  /\ \E i \in 1..Len(call'.log) : call'.log[i] = "credentials"
                                                  \/ call'.log[i] = "mergeHeaders"
               THEN 1 ELSE 0
       /\ call'.pc = "awaitFetch" => call'.request.signal = call'.signal
       /\ (CancelledAfterCheck /\ call' # call)
          => /\ call'.log[Len(call'.log)] # "signal.aborted"
             /\ (call.pc = "awaitBody" /\ call.awaited.ok)
                => /\ \E i \in 1..Len(call'.log) : call'.log[i] = "measure"
                   /\ configuration.measure # "throws"
                      => call'.pc = "awaitFetch" /\ call'.request.signal
             /\ (call.pc = "awaitBody" /\ ~call.awaited.ok)
                => call'.outcome = call.awaited
             /\ call.pc = "awaitFetch"
                => /\ call'.outcome = Thrown("AbortError", <<>>)
                   /\ call'.thunk = Thrown("AbortError", <<>>)
                   /\ call'.log[Len(call'.log)] = "fetch"]_vars

C28_Witness ==
    /\ call.pc = "awaitFetch" /\ signalAborted /\ ~call.abortedAtCall
    /\ InLog("signal.aborted") /\ InLog("body.parseAsync")
    /\ call.request.signal

\* C29: a request that is called ends, when what it awaits settles: it comes to
\* one outcome, a value returned or an error thrown, that is not there before
\* it ends and does not change after.
C29_Terminates ==
    /\ (call.pc # "idle") ~> Done
    /\ [](Done <=> call.outcome # Pending)
    /\ [][Done => call' = call]_vars

C29_Witness ==
    /\ Done /\ call.outcome.ok /\ call.thunk = call.outcome
    /\ InLog("search.parseAsync") /\ InLog("success.parseAsync")
    /\ Len(consoleLog) = 1

\* C30: once a response with a JSON Content-Type is there, the step that reads
\* and parses its body without getting a JSON value ends request with the
\* invalid-JSON-response error naming the endpoint, whether the text does not
\* parse or the read itself fails, and also when the signal of the request is
\* aborted while the body is read: the error of the read is not the error of
\* request.
C30_BodyFailure ==
    [][(/\ call.pc = "awaitText"
        /\ call' # call
        /\ call'.text = Undefined \/ ~JSONparse(call'.text.s).ok)
       => /\ JsonContentType
          /\ call'.pc = "done"
          /\ call'.thunk = Thrown("InvalidJsonResponse", call.endpoint.s)
          /\ call'.outcome = measurer(call'.thunk)
          /\ call'.schema = "none"]_vars

C30_Witness ==
    /\ Done /\ JsonContentType /\ ~BodyRead
    /\ call.signal /\ signalAborted /\ ~call.abortedAtCall
    /\ call.log[Len(call.log)] = "text"
    /\ call.outcome = Thrown("InvalidJsonResponse", call.endpoint.s)

====
